---------------------------- MODULE Spec2Model ----------------------------
(***************************************************************************)
(* A model of the OpenStack Telegram bot (src/main.py): the OpenStackAPI   *)
(* client (session, REST operations, topology queries) and the button      *)
(* handlers that chain them.                                               *)
(*                                                                         *)
(* Time is counted in minutes.  Python's None is the empty sequence, a     *)
(* present value x is <<x>>.  A dict is a function whose domain is the set *)
(* of its keys.  The remote services answer truthfully when they answer;   *)
(* whether they answer is a nondeterministic choice per request.           *)
(***************************************************************************)
EXTENDS Integers, Sequences, FiniteSets, TLC

VARIABLES
    now,              \* datetime.now(timezone.utc), in minutes
    token,            \* OpenStackAPI.token
    token_expires,    \* OpenStackAPI.token_expires
    service_catalog,  \* OpenStackAPI.service_catalog
    routers,          \* remote: the routers of the project
    subnets,          \* remote: the subnets of the project
    networks,         \* remote: the networks of the project
    answers,          \* remote: the statuses a request can be answered with
    identity,         \* remote: the bodies a token response can carry
    ports,            \* remote: port id -> [device, net_id, fixed_ips]
    floatingips,      \* remote: floating ip id -> [port_id]
    sent,             \* the HTTP requests of the operation or event in progress
    call,             \* the client operation last invoked directly, with its arguments
    ret,              \* what that operation returned
    callers,          \* queued callers of get_headers(): caller -> position
    auths,            \* authenticate() requests sent since the callers were queued
    writers,          \* callers inside a fixed-IP update: writer -> position and locals
    user_data,        \* context.user_data of the one authorized user
    prompted,         \* what the last confirmation prompt displayed
    screen,           \* the kind of message the bot last rendered
    keyboards,        \* message -> the callback data of the buttons it shows
    stranger_data,    \* context.user_data of a user who is not in AUTHORIZED_USERS
    application       \* main(): the bot token, the handlers added, how far it got

vars == <<now, token, token_expires, service_catalog, routers, subnets, networks,
          answers, identity, ports, floatingips, sent, call, ret, callers, auths, writers,
          user_data, prompted, screen, keyboards, stranger_data, application>>

sessionVars == <<token, token_expires, service_catalog>>
remoteVars  == <<routers, subnets, networks, answers, identity, ports, floatingips>>
clientVars  == <<call, ret>>
callerVars  == <<callers, auths, writers>>
botVars     == <<user_data, prompted, screen, keyboards, stranger_data, application>>

---------------------------------------------------------------------------
(* Bounds of the model *)

MaxTime   == 3    \* the clock stops advancing here
ShortLife == 4    \* minutes of life of a token issued close to its expiry
LongLife  == 7    \* minutes of life of a token issued fresh
NCallers  == 3    \* callers queued while the token is expired
MaxFixedIps == 2  \* fixed IPs on a port before any is removed
PortQuota == 2    \* fixed IPs the remote lets a port carry
MaxNetworks == 3  \* networks in a listing of the project's networks

(* Program constants *)

Skew        == 5      \* timedelta(minutes=5)
StatusCreated == 201  \* the only status authenticate() accepts

---------------------------------------------------------------------------
(* Optional values and dicts *)

None == <<>>
Some(x) == <<x>>
IsNone(o) == o = <<>>
Val(o) == o[1]

EmptyDict == <<>>
Has(d, k) == k \in DOMAIN d
Put(d, k, v) == [x \in DOMAIN d \cup {k} |-> IF x = k THEN v ELSE d[x]]
Del(d, k) == [x \in DOMAIN d \ {k} |-> d[x]]

\* dict.get(k)
Lookup(d, k) == IF Has(d, k) THEN Some(d[k]) ELSE None

\* the first index of a set of indices
Least(S) == CHOOSE i \in S : \A j \in S : i <= j

\* a status of 0 stands for a request that got no answer
NoAnswer == 0
Is2xx(s) == s \in 200..299

\* the answers of services that work or fail outright, and of services that also
\* answer with the other statuses of the model or not at all
Plain == {200, 500}
AnyStatus == {NoAnswer, 200, 201, 202, 204, 404, 500}

Fail == [ok |-> FALSE, val |-> <<>>]
Ok(v) == [ok |-> TRUE, val |-> v]
\* Python's "not x" for what an operation returned: None or an empty list
Falsy(r) == ~r.ok \/ r.val = <<>>

---------------------------------------------------------------------------
(* The identity service's answers *)

\* The identity service issues a token that differs from the one issued before
FreshToken(cached) == IF cached = Some("tok1") THEN "tok2" ELSE "tok1"

CatalogFull == <<
    [type |-> "compute",
     endpoints |-> << [interface |-> "admin",  url |-> "http://nova-admin"],
                      [interface |-> "public", url |-> "http://nova"] >>],
    [type |-> "network",
     endpoints |-> << [interface |-> "public", url |-> "http://neutron"] >>] >>

\* the catalog of a project whose compute service is not advertised
CatalogNetwork == << CatalogFull[2] >>

\* the catalog of a project whose compute service has no public endpoint and whose
\* network service has two
CatalogInternal == <<
    [type |-> "compute",
     endpoints |-> << [interface |-> "admin",    url |-> "http://nova-admin"],
                      [interface |-> "internal", url |-> "http://nova-internal"] >>],
    [type |-> "network",
     endpoints |-> << [interface |-> "internal", url |-> "http://neutron-internal"],
                      [interface |-> "public",   url |-> "http://neutron"],
                      [interface |-> "public",   url |-> "http://neutron-2"] >>] >>

\* the body of a token response: its catalog, and whether the body has every field
\* authenticate() reads; a body that is not complete lacks token.catalog;
\* subject_token tells whether the response carries the X-Subject-Token header
BodyFull == [catalog |-> CatalogFull, complete |-> TRUE, subject_token |-> TRUE]
BodyNetwork == [catalog |-> CatalogNetwork, complete |-> TRUE, subject_token |-> TRUE]
BodyInternal == [catalog |-> CatalogInternal, complete |-> TRUE, subject_token |-> TRUE]
BodyNoCatalog == [catalog |-> <<>>, complete |-> FALSE, subject_token |-> TRUE]
BodyNoSubjectToken == [catalog |-> CatalogFull, complete |-> TRUE, subject_token |-> FALSE]

Rejected == [status |-> 401, expires_at |-> 0, catalog |-> <<>>, complete |-> FALSE,
             subject_token |-> FALSE]

\* requests.post raised before any response came
Dropped == [status |-> NoAnswer, expires_at |-> 0, catalog |-> <<>>, complete |-> FALSE,
            subject_token |-> FALSE]

\* the responses to POST /v3/auth/tokens: a rejection, no response where the
\* transport can fail, or a 201 with one of the lifetimes and bodies
AuthResponses(w, t) ==
    {Rejected} \cup
    (IF NoAnswer \in w.answers THEN {Dropped} ELSE {}) \cup
    { [status |-> StatusCreated, expires_at |-> t + life, catalog |-> body.catalog,
       complete |-> body.complete, subject_token |-> body.subject_token] :
        life \in {ShortLife, LongLife}, body \in w.identity }

---------------------------------------------------------------------------
(* Session: authenticate, is_token_valid, get_headers *)

\* a request as it left: status is what came back (NoAnswer when nothing did, or
\* when the entry is written before the answer), reply the body of a 2xx answer
Request(method, svc, res, id, body, status, reply, hdr, t) ==
    [method |-> method, svc |-> svc, res |-> res, id |-> id, body |-> body,
     status |-> status, reply |-> reply, tok |-> hdr.tok, exp |-> hdr.exp, at |-> t]

NoHeaders == [tok |-> None, exp |-> None]

\* A variant that takes the first endpoint whatever its interface
FirstPublic_mut(endpoints) ==
    IF endpoints = <<>> THEN None ELSE Some(Head(endpoints).url)

\* for endpoint in service['endpoints']: if endpoint['interface'] == 'public': ...; break
RECURSIVE FirstPublic(_)
FirstPublic(endpoints) ==
    IF endpoints = <<>> THEN None
    ELSE IF Head(endpoints).interface = "public" THEN Some(Head(endpoints).url)
    ELSE FirstPublic(Tail(endpoints))

RECURSIVE StoreCatalog(_, _)
StoreCatalog(cat, services) ==
    IF services = <<>> THEN cat
    ELSE LET s == Head(services)
             u == FirstPublic(s.endpoints)
         IN StoreCatalog(IF IsNone(u) THEN cat ELSE Put(cat, s.type, Val(u)),
                         Tail(services))

\* w: the client's world: the session, the requests sent and the remote resources
\* requests.post(f"{self.auth_url}/v3/auth/tokens", ...) and the response to it
AuthSent(w, t, resp) ==
    [w EXCEPT !.sent = Append(@, Request("POST", "identity", "auth/tokens", "", <<>>,
                                         resp.status,
                                         IF resp.status = StatusCreated
                                         THEN Some([expires_at |-> resp.expires_at,
                                                    catalog |-> resp.catalog,
                                                    complete |-> resp.complete,
                                                    subject_token |-> resp.subject_token])
                                         ELSE None,
                                         NoHeaders, t))]

\* the request has left and no answer has come yet
PostAuthTokens(w, t) ==
    AuthSent(w, t, [status |-> NoAnswer, expires_at |-> 0, catalog |-> <<>>,
                    complete |-> FALSE, subject_token |-> FALSE])

\* A variant that forgets the token when the authentication fails
AuthReply_mut(w, resp) ==
    IF resp.status # StatusCreated \/ ~resp.complete
    THEN [w |-> [w EXCEPT !.token = None], ok |-> FALSE]
    ELSE [w |-> [w EXCEPT !.token = Some(FreshToken(w.token)),
                          !.token_expires = Some(resp.expires_at),
                          !.service_catalog = StoreCatalog(@, resp.catalog)],
          ok |-> TRUE]

\* response.headers.get('X-Subject-Token'): None when the header is missing
SubjectToken(w, resp) == IF resp.subject_token THEN Some(FreshToken(w.token)) ELSE None

\* What authenticate() does with the response: the token, then the expiry, then
\* the catalog entries one by one into the dict it already holds; reading a field
\* the body lacks raises, and the except returns False with what was stored so far
AuthReply(w, resp) ==
    IF resp.status # StatusCreated THEN [w |-> w, ok |-> FALSE]
    ELSE IF ~resp.complete
         THEN [w |-> [w EXCEPT !.token = SubjectToken(w, resp),
                               !.token_expires = Some(resp.expires_at)],
               ok |-> FALSE]
    ELSE [w |-> [w EXCEPT !.token = SubjectToken(w, resp),
                          !.token_expires = Some(resp.expires_at),
                          !.service_catalog = StoreCatalog(@, resp.catalog)],
          ok |-> TRUE]

\* An operation of the client is the set of its outcomes [w, r]: one for each way
\* the services can answer the requests it sends
authenticate(w, t) ==
    { AuthReply(AuthSent(w, t, resp), resp) : resp \in AuthResponses(w, t) }

\* A variant without the margin before the expiry
is_token_valid_mut(w, t) ==
    /\ ~IsNone(w.token)
    /\ ~IsNone(w.token_expires)
    /\ t < Val(w.token_expires)

is_token_valid(w, t) ==
    /\ ~IsNone(w.token)
    /\ ~IsNone(w.token_expires)
    /\ t < Val(w.token_expires) - Skew

Headers(w) == [tok |-> w.token, exp |-> w.token_expires]

get_headers(w, t) ==
    IF ~is_token_valid(w, t)
    THEN { IF ~a.ok THEN [w |-> a.w, hdr |-> None]
           ELSE [w |-> a.w, hdr |-> Some(Headers(a.w))] : a \in authenticate(w, t) }
    ELSE { [w |-> w, hdr |-> Some(Headers(w))] }

World == [token |-> token, token_expires |-> token_expires,
          service_catalog |-> service_catalog, sent |-> <<>>,
          ports |-> ports, floatingips |-> floatingips,
          networks |-> networks, subnets |-> subnets, answers |-> answers,
          identity |-> identity]

\* The assignment of a world back to the variables it was read from
Commit(w) ==
    /\ token' = w.token
    /\ token_expires' = w.token_expires
    /\ service_catalog' = w.service_catalog
    /\ sent' = w.sent
    /\ ports' = w.ports
    /\ floatingips' = w.floatingips
    /\ networks' = w.networks
    /\ subnets' = w.subnets

---------------------------------------------------------------------------
(* Resource client: the shape every operation shares *)

\* A variant that goes on without headers
Prepare_mut(w, t, svc) ==
    { [w |-> h.w,
       go |-> Has(h.w.service_catalog, svc),
       hdr |-> IF IsNone(h.hdr) THEN NoHeaders ELSE Val(h.hdr)] : h \in get_headers(w, t) }

\* headers = self.get_headers(); url = self.service_catalog.get(svc)
Prepare(w, t, svc) ==
    { [w |-> h.w,
       go |-> ~IsNone(h.hdr) /\ Has(h.w.service_catalog, svc),
       hdr |-> IF IsNone(h.hdr) THEN NoHeaders ELSE Val(h.hdr)] : h \in get_headers(w, t) }

\* A variant that sends again a request that was not answered with a 2xx
Send_mut(w, t, hdr, method, svc, res, id, body, s, payload) ==
    [w EXCEPT !.sent = IF Is2xx(s)
                       THEN Append(@, Request(method, svc, res, id, body, s,
                                              Some(payload), hdr, t))
                       ELSE @ \o << Request(method, svc, res, id, body, s, None, hdr, t),
                                    Request(method, svc, res, id, body, s, None, hdr, t) >>]

\* The request and its answer: a status s of the remote's choosing, with the body
\* on a 2xx; NoAnswer is the transport fault, raised by requests and caught
Send(w, t, hdr, method, svc, res, id, body, s, payload) ==
    [w EXCEPT !.sent = Append(@, Request(method, svc, res, id, body, s,
                                         IF Is2xx(s) THEN Some(payload) ELSE None,
                                         hdr, t))]

\* A GET of a listing: the list on a 200, None otherwise
List(w, t, svc, res, id, listing) ==
    UNION { IF ~p.go THEN { [w |-> p.w, r |-> Fail] }
            ELSE { [w |-> Send(p.w, t, p.hdr, "GET", svc, res, id, <<>>, s, listing),
                    r |-> IF s = 200 THEN Ok(listing) ELSE Fail] :
                   s \in p.w.answers } :
            p \in Prepare(w, t, svc) }

ServerList == << [id |-> "S1", name |-> "web"], [id |-> "S2", name |-> "db"] >>
ServerIds == {"S1", "S2"}

get_servers(w, t) == List(w, t, "compute", "servers/detail", "", ServerList)
get_routers(w, t) == List(w, t, "network", "routers", "", routers)
get_networks(w, t) == List(w, t, "network", "networks", "", w.networks)
get_subnets(w, t) == List(w, t, "network", "subnets", "", w.subnets)

---------------------------------------------------------------------------
(* The remote project: networks, addresses, ports *)

NetIds == {"netA", "netB", "netX"}

\* ip_address strings and the characters the IPv4 test looks for in them
Addresses == {"10.0.0.9", "10.0.1.7", "fd00::1", "::ffff:10.0.0.9"}
HasDot(a) == a \in {"10.0.0.9", "10.0.1.7", "10.0.0.12", "::ffff:10.0.0.9"}
HasColon(a) == a \in {"fd00::1", "fd00::2", "::ffff:10.0.0.9"}

\* the records the remote keeps
Subnet(id, network_id, gateway_ip) ==
    [id |-> id, network_id |-> network_id, gateway_ip |-> gateway_ip]
Network(id, external) == [id |-> id, name |-> id, external |-> external]
Router(id, external_gateway_info) ==
    [id |-> id, name |-> id, external_gateway_info |-> external_gateway_info]
Port(device, net_id, fixed_ips) ==
    [device |-> device, net_id |-> net_id, fixed_ips |-> fixed_ips]
FixedIp(ip_address) ==
    [ip_address |-> ip_address,
     subnet_id |-> IF ip_address = "10.0.1.7" THEN "subB" ELSE "subA"]

\* the order in which the remote lists ports and interfaces
PortOrder == <<"p1", "p2", "p9">>
FreshPorts == {"p9"}

FipIds == {"F1", "F2"}
FipAddress(f) == IF f = "F1" THEN "203.0.113.5" ELSE "203.0.113.6"

\* GET /servers/{id}/os-interface: the ports whose device is the server
InterfacesOf(pts, server_id) ==
    LET ids == SelectSeq(PortOrder,
                         LAMBDA p : p \in DOMAIN pts /\ pts[p].device = server_id)
    IN [i \in 1..Len(ids) |-> [port_id |-> ids[i], net_id |-> pts[ids[i]].net_id,
                               fixed_ips |-> pts[ids[i]].fixed_ips]]

\* GET /floatingips
FloatingIpList(fips) ==
    LET ids == SelectSeq(<<"F1", "F2">>, LAMBDA f : f \in DOMAIN fips)
    IN [i \in 1..Len(ids) |-> [id |-> ids[i], port_id |-> fips[ids[i]].port_id,
                               floating_ip_address |-> FipAddress(ids[i])]]

get_floating_ips(w, t) ==
    List(w, t, "network", "floatingips", "", FloatingIpList(w.floatingips))

get_server_interfaces(w, t, server_id) ==
    List(w, t, "compute", "os-interface", server_id, InterfacesOf(w.ports, server_id))

\* f"{compute_url}/servers/{server_id}" begins with the URL, or with "None"
Formatted(url) == IF IsNone(url) THEN "None" ELSE Val(url)

\* A variant in which requests sends to a URL of any form
HasScheme_mut(text) == TRUE

\* requests sends to a URL that begins with a scheme and raises MissingSchema,
\* before it sends anything, for one that does not
HasScheme(text) == text \in {"http://nova", "http://nova-admin", "http://neutron"}

\* headers = self.get_headers(); the URL is used without a test that it is there
PrepareUnchecked(w, t, svc) ==
    { [w |-> h.w,
       go |-> ~IsNone(h.hdr) /\ HasScheme(Formatted(Lookup(h.w.service_catalog, svc))),
       hdr |-> IF IsNone(h.hdr) THEN NoHeaders ELSE Val(h.hdr)] : h \in get_headers(w, t) }

\* get_server_details: no check of the compute URL; without one the request raises
\* and the except returns None
get_server_details(w, t, server_id) ==
    LET found == { i \in DOMAIN ServerList : ServerList[i].id = server_id }
    IN UNION { IF ~p.go THEN { [w |-> p.w, r |-> Fail] }
               ELSE UNION { IF ~Is2xx(s)
                            THEN { [w |-> Send(p.w, t, p.hdr, "GET", "compute", "servers",
                                               server_id, <<>>, s, <<>>),
                                    r |-> Fail] }
                            ELSE { [w |-> Send(p.w, t, p.hdr, "GET", "compute", "servers",
                                               server_id, <<>>, s, ServerList[i]),
                                    r |-> IF s = 200 THEN Ok(ServerList[i]) ELSE Fail] :
                                   i \in found } :
                            s \in p.w.answers } :
               p \in PrepareUnchecked(w, t, "compute") }

---------------------------------------------------------------------------
(* Topology resolver *)

\* router.get('external_gateway_info') and router['external_gateway_info'].get('network_id')
HasExternalGateway(router) ==
    /\ ~IsNone(router.external_gateway_info)
    /\ ~IsNone(Val(router.external_gateway_info).network_id)

\* A variant that keeps only the networks some router names as its external network
ConnectedNetworks_mut(rs, ss) ==
    IF Falsy(rs) \/ Falsy(ss) THEN {}
    ELSE { ss.val[i].network_id :
             i \in { j \in DOMAIN ss.val :
                       /\ ~IsNone(ss.val[j].gateway_ip)
                       /\ \E k \in DOMAIN rs.val :
                             rs.val[k].external_gateway_info
                                 = Some([network_id |-> Some(ss.val[j].network_id)]) } }

\* The body of find_networks_with_external_gateway once both listings returned
ConnectedNetworks(rs, ss) ==
    IF Falsy(rs) \/ Falsy(ss) THEN {}
    ELSE LET external_routers == SelectSeq(rs.val, HasExternalGateway)
         IN IF external_routers = <<>> THEN {}
            ELSE { ss.val[i].network_id :
                     i \in { j \in DOMAIN ss.val : ~IsNone(ss.val[j].gateway_ip) } }

\* list(connected_networks): a set, iterated in no particular order
find_networks_with_external_gateway(w, t) ==
    UNION { { [w |-> ss.w, r |-> ConnectedNetworks(rs.r, ss.r)] :
              ss \in get_subnets(rs.w, t) } :
            rs \in get_routers(w, t) }

\* A variant that takes any dotted address for an IPv4 address
IsIPv4_mut(ip_address) == HasDot(ip_address)

\* '.' in ip_address and ':' not in ip_address
IsIPv4(ip_address) == HasDot(ip_address) /\ ~HasColon(ip_address)

RECURSIVE AnyIPv4(_)
AnyIPv4(fixed_ips) ==
    IF fixed_ips = <<>> THEN FALSE
    ELSE IF IsIPv4(Head(fixed_ips).ip_address) THEN TRUE
    ELSE AnyIPv4(Tail(fixed_ips))

\* first loop: an interface with an IPv4 address on a network with external access
RECURSIVE FirstExternalIPv4(_, _)
FirstExternalIPv4(interfaces, external_networks) ==
    IF interfaces = <<>> THEN None
    ELSE IF /\ Head(interfaces).fixed_ips # <<>>
            /\ AnyIPv4(Head(interfaces).fixed_ips)
            /\ Head(interfaces).net_id \in external_networks
         THEN Some(Head(interfaces))
    ELSE FirstExternalIPv4(Tail(interfaces), external_networks)

\* second loop: any interface with an IPv4 address
RECURSIVE FirstIPv4(_)
FirstIPv4(interfaces) ==
    IF interfaces = <<>> THEN None
    ELSE IF AnyIPv4(Head(interfaces).fixed_ips) THEN Some(Head(interfaces))
    ELSE FirstIPv4(Tail(interfaces))

\* A variant without the second loop
SuitableInterface_mut(interfaces, external_networks) ==
    FirstExternalIPv4(interfaces, external_networks)

SuitableInterface(interfaces, external_networks) ==
    LET first == FirstExternalIPv4(interfaces, external_networks)
    IN IF ~IsNone(first) THEN first ELSE FirstIPv4(interfaces)

get_suitable_interface_for_floating_ip(w, t, server_id) ==
    UNION { IF Falsy(is.r) THEN { [w |-> is.w, r |-> None] }
            ELSE { [w |-> ext.w, r |-> SuitableInterface(is.r.val, ext.r)] :
                   ext \in find_networks_with_external_gateway(is.w, t) } :
            is \in get_server_interfaces(w, t, server_id) }

---------------------------------------------------------------------------
(* Mutating operations *)

\* what the remote can answer to an attach: the new port and its addresses
Attachable ==
    { [port_id |-> p, fixed_ips |-> l] :
        p \in FreshPorts, l \in { <<FixedIp("10.0.0.12")>>, <<FixedIp("fd00::2")>> } }

\* POST /servers/{id}/os-interface: on a 200/202 the remote has made a port
attach_interface(w, t, server_id, network_id) ==
    UNION { IF ~p.go THEN { [w |-> p.w, r |-> None] }
            ELSE UNION {
                   IF ~Is2xx(s)
                   THEN { [w |-> Send(p.w, t, p.hdr, "POST", "compute", "os-interface",
                                      server_id, <<network_id>>, s, <<>>),
                           r |-> None] }
                   ELSE { [w |-> [Send(p.w, t, p.hdr, "POST", "compute", "os-interface",
                                       server_id, <<network_id>>, s,
                                       [port_id |-> made.port_id, net_id |-> network_id,
                                        fixed_ips |-> made.fixed_ips])
                                  EXCEPT !.ports = Put(@, made.port_id,
                                                       Port(server_id, network_id,
                                                            made.fixed_ips))],
                           r |-> IF s \in {200, 202}
                                 THEN Some([port_id |-> made.port_id, net_id |-> network_id,
                                            fixed_ips |-> made.fixed_ips])
                                 ELSE None] :
                          made \in { m \in Attachable : m.port_id \notin DOMAIN p.w.ports } } :
                   s \in p.w.answers } :
            p \in Prepare(w, t, "compute") }

\* PUT /floatingips/{id} with {"floatingip": {"port_id": port_id}}
associate_floating_ip(w, t, floating_ip_id, port_id) ==
    LET result == [id |-> floating_ip_id, port_id |-> Some(port_id),
                   floating_ip_address |-> FipAddress(floating_ip_id)]
    IN UNION { IF ~p.go THEN { [w |-> p.w, r |-> None] }
               ELSE UNION {
                      IF ~Is2xx(s)
                      THEN { [w |-> Send(p.w, t, p.hdr, "PUT", "network", "floatingips",
                                         floating_ip_id, <<port_id>>, s, <<>>),
                              r |-> None] }
                      ELSE { [w |-> [Send(p.w, t, p.hdr, "PUT", "network", "floatingips",
                                          floating_ip_id, <<port_id>>, s, result)
                                     EXCEPT !.floatingips[f].port_id = Some(port_id)],
                              r |-> IF s \in {200, 202} THEN Some(result) ELSE None] :
                             f \in {floating_ip_id} \cap DOMAIN p.w.floatingips } :
                      s \in p.w.answers } :
               p \in Prepare(w, t, "network") }

\* A variant that drops every entry on the subnet of the address
WithoutAddress_mut(current_fixed_ips, ip_address) ==
    SelectSeq(current_fixed_ips,
              LAMBDA ip : \A k \in DOMAIN current_fixed_ips :
                             current_fixed_ips[k].ip_address = ip_address
                                 => ip.subnet_id # current_fixed_ips[k].subnet_id)

\* [ip for ip in current_fixed_ips if ip.get('ip_address') != ip_address]
WithoutAddress(current_fixed_ips, ip_address) ==
    SelectSeq(current_fixed_ips, LAMBDA ip : ip.ip_address # ip_address)

\* A variant that never reports the address as missing
AddressNotFound_mut(new_fixed_ips, current_fixed_ips) == FALSE

\* len(new_fixed_ips) == len(current_fixed_ips)
AddressNotFound(new_fixed_ips, current_fixed_ips) ==
    Len(new_fixed_ips) = Len(current_fixed_ips)

\* GET /ports/{id}: the status and, on a 2xx, the port's fixed-IP list
GetPort(w, t, hdr, port_id) ==
    UNION { IF ~Is2xx(s)
            THEN { [w |-> Send(w, t, hdr, "GET", "network", "ports", port_id, <<>>, s, <<>>),
                    status |-> s, fixed_ips |-> <<>>] }
            ELSE { [w |-> Send(w, t, hdr, "GET", "network", "ports", q, <<>>, s,
                               w.ports[q].fixed_ips),
                    status |-> s, fixed_ips |-> w.ports[q].fixed_ips] :
                   q \in {port_id} \cap DOMAIN w.ports } :
            s \in w.answers }

\* What the remote stores for a list put to a port, if it accepts the list: an entry
\* that names only its subnet gets an address of that subnet not yet on the list
Stored(fixed_ips) ==
    IF Len(fixed_ips) > PortQuota THEN {}
    ELSE IF fixed_ips = <<>> \/ "ip_address" \in DOMAIN fixed_ips[Len(fixed_ips)]
    THEN { fixed_ips }
    ELSE { Append(SubSeq(fixed_ips, 1, Len(fixed_ips) - 1), FixedIp(a)) :
           a \in { x \in Addresses :
                     /\ FixedIp(x).subnet_id = fixed_ips[Len(fixed_ips)].subnet_id
                     /\ \A k \in 1..(Len(fixed_ips) - 1) :
                           fixed_ips[k].ip_address # x } }

\* A variant in which the remote keeps the list it holds
PutPort_mut(w, t, hdr, port_id, new_fixed_ips) ==
    { [w |-> Send(w, t, hdr, "PUT", "network", "ports", port_id, new_fixed_ips, s,
                  w.ports[q].fixed_ips),
       r |-> s \in {200, 202}] :
      q \in {port_id} \cap DOMAIN w.ports, s \in w.answers }

\* PUT /ports/{id} with {"port": {"fixed_ips": new_fixed_ips}}: the remote replaces
\* the list whatever it held; success on 200 or 202
PutPort(w, t, hdr, port_id, new_fixed_ips) ==
    UNION { IF ~Is2xx(s)
            THEN { [w |-> Send(w, t, hdr, "PUT", "network", "ports", port_id,
                               new_fixed_ips, s, <<>>),
                    r |-> FALSE] }
            ELSE { [w |-> [Send(w, t, hdr, "PUT", "network", "ports", q, new_fixed_ips,
                                s, stored)
                           EXCEPT !.ports[q].fixed_ips = stored],
                    r |-> s \in {200, 202}] :
                   q \in {port_id} \cap DOMAIN w.ports, stored \in Stored(new_fixed_ips) } :
            s \in w.answers }

\* what remove_fixed_ip_from_interface does with the answer to its GET
RemoveFrom(g, t, hdr, port_id, ip_address) ==
    IF g.status # 200 THEN { [w |-> g.w, r |-> FALSE] }
    ELSE IF AddressNotFound(WithoutAddress(g.fixed_ips, ip_address), g.fixed_ips)
         THEN { [w |-> g.w, r |-> FALSE] }
    ELSE PutPort(g.w, t, hdr, port_id, WithoutAddress(g.fixed_ips, ip_address))

\* GET /ports/{id}, then PUT /ports/{id} with the filtered list, under the headers
\* obtained once
remove_fixed_ip_from_interface(w, t, port_id, ip_address) ==
    UNION { IF ~p.go THEN { [w |-> p.w, r |-> FALSE] }
            ELSE UNION { RemoveFrom(g, t, p.hdr, port_id, ip_address) :
                         g \in GetPort(p.w, t, p.hdr, port_id) } :
            p \in Prepare(w, t, "network") }

\* A variant that writes the new entry alone
WithSubnet_mut(current_fixed_ips, subnet_id) == << [subnet_id |-> subnet_id] >>

\* new_fixed_ips = current_fixed_ips + [{"subnet_id": subnet_id}]
WithSubnet(current_fixed_ips, subnet_id) ==
    current_fixed_ips \o << [subnet_id |-> subnet_id] >>

\* what add_fixed_ip_to_interface does with the answer to its GET
AddTo(g, t, hdr, port_id, subnet_id) ==
    IF g.status # 200 THEN { [w |-> g.w, r |-> FALSE] }
    ELSE PutPort(g.w, t, hdr, port_id, WithSubnet(g.fixed_ips, subnet_id))

\* GET /ports/{id}, then PUT /ports/{id} with the list read and one more entry
add_fixed_ip_to_interface(w, t, port_id, subnet_id) ==
    UNION { IF ~p.go THEN { [w |-> p.w, r |-> FALSE] }
            ELSE UNION { AddTo(g, t, p.hdr, port_id, subnet_id) :
                         g \in GetPort(p.w, t, p.hdr, port_id) } :
            p \in Prepare(w, t, "network") }

\* GET /v2.0/ports: every port, in the remote's order
PortList(pts) ==
    LET ids == SelectSeq(PortOrder, LAMBDA q : q \in DOMAIN pts)
    IN [i \in 1..Len(ids) |-> [id |-> ids[i], device_id |-> pts[ids[i]].device,
                               network_id |-> pts[ids[i]].net_id,
                               fixed_ips |-> pts[ids[i]].fixed_ips]]

get_ports(w, t) == List(w, t, "network", "ports", "", PortList(w.ports))

\* the names of the model, character by character
Spelling(name) ==
    CASE name = "" -> <<>>
      [] name = "netA" -> <<"n", "e", "t", "A">>
      [] name = "netB" -> <<"n", "e", "t", "B">>
      [] name = "netX" -> <<"n", "e", "t", "X">>
      [] name = "private" -> <<"p", "r", "i", "v", "a", "t", "e">>
      [] name = "public" -> <<"p", "u", "b", "l", "i", "c">>
      [] name = "my-PUBLIC" -> <<"m", "y", "-", "P", "U", "B", "L", "I", "C">>
      [] name = "public-167" -> <<"p", "u", "b", "l", "i", "c", "-", "1", "6", "7">>
      [] name = "public-431" -> <<"p", "u", "b", "l", "i", "c", "-", "4", "3", "1">>
      [] name = "Public-431" -> <<"P", "u", "b", "l", "i", "c", "-", "4", "3", "1">>
      [] name = "public-16" -> <<"p", "u", "b", "l", "i", "c", "-", "1", "6">>

\* str.lower(), on the letters the names of the model are written with
LowerChar(c) ==
    CASE c = "A" -> "a" [] c = "B" -> "b" [] c = "C" -> "c" [] c = "I" -> "i"
      [] c = "L" -> "l" [] c = "P" -> "p" [] c = "U" -> "u" [] c = "X" -> "x"
      [] OTHER -> c
Lower(text) == [i \in DOMAIN text |-> LowerChar(text[i])]

\* pattern in text
Contains(text, pattern) ==
    \E k \in 0..(Len(text) - Len(pattern)) :
        SubSeq(text, k + 1, k + Len(pattern)) = pattern

\* A variant that looks for 'public' in the name as it is written
HasPublic_mut(name) == Contains(Spelling(name), Spelling("public"))

\* 'public' in network.get('name', '').lower()
HasPublic(name) == Contains(Lower(Spelling(name)), Spelling("public"))

\* 'public-167' in name or 'public-431' in name, name being lowered
Preferred(name) ==
    \/ Contains(Lower(Spelling(name)), Spelling("public-167"))
    \/ Contains(Lower(Spelling(name)), Spelling("public-431"))

get_public_networks(w, t) ==
    { [w |-> n.w,
       r |-> IF Falsy(n.r) THEN <<>>
             ELSE SelectSeq(n.r.val,
                            LAMBDA network : network.external \/ HasPublic(network.name))] :
      n \in get_networks(w, t) }

\* A variant that takes the first public network whatever its name
FirstPublicNetwork_mut(public_networks) ==
    IF public_networks = <<>> THEN None ELSE Some(public_networks[1].id)

\* the id of the first preferred public network, else of the first public network
FirstPublicNetwork(public_networks) ==
    IF public_networks = <<>> THEN None
    ELSE IF \E i \in DOMAIN public_networks : Preferred(public_networks[i].name)
         THEN Some(public_networks[Least({ i \in DOMAIN public_networks :
                                             Preferred(public_networks[i].name) })].id)
    ELSE Some(public_networks[1].id)

get_public_network_id(w, t) ==
    { [w |-> n.w, r |-> FirstPublicNetwork(n.r)] : n \in get_public_networks(w, t) }

\* what the remote makes for a create_network: one network and its subnet; it makes
\* no second network of the model's one fresh id
FreshNetwork(name) == [id |-> "netN", name |-> name, external |-> FALSE]
FreshSubnet == Subnet("subN", "netN", Some("192.168.100.1"))

\* POST /v2.0/subnets for the network just made: whatever the answer the network
\* is returned; with no answer requests raises and the except returns None
CreateSubnet(w, t, hdr, network) ==
    UNION { IF s = NoAnswer
            THEN { [w |-> Send(w, t, hdr, "POST", "network", "subnets", "",
                               <<network.id>>, s, <<>>),
                    r |-> None] }
            ELSE IF ~Is2xx(s)
            THEN { [w |-> Send(w, t, hdr, "POST", "network", "subnets", "",
                               <<network.id>>, s, <<>>),
                    r |-> Some(network)] }
            ELSE { [w |-> [Send(w, t, hdr, "POST", "network", "subnets", "",
                                <<network.id>>, s, FreshSubnet)
                           EXCEPT !.subnets = Append(@, FreshSubnet)],
                    r |-> Some(network)] } :
            s \in w.answers }

\* POST /v2.0/networks, then POST /v2.0/subnets when the status was 201 or 200
create_network(w, t, name) ==
    UNION { IF ~p.go THEN { [w |-> p.w, r |-> None] }
            ELSE UNION {
                   IF ~Is2xx(s)
                   THEN { [w |-> Send(p.w, t, p.hdr, "POST", "network", "networks", "",
                                      <<name>>, s, <<>>),
                           r |-> None] }
                   ELSE UNION {
                          IF s \notin {201, 200} THEN { [w |-> made, r |-> None] }
                          ELSE CreateSubnet(made, t, p.hdr, FreshNetwork(name)) :
                          made \in { [Send(p.w, t, p.hdr, "POST", "network", "networks",
                                           "", <<name>>, s, FreshNetwork(name))
                                      EXCEPT !.networks = Append(@, FreshNetwork(name))] :
                                     x \in { n \in {"netN"} :
                                              \A i \in DOMAIN p.w.networks :
                                                 p.w.networks[i].id # n } } } :
                   s \in p.w.answers } :
            p \in Prepare(w, t, "network") }

\* POST /v2.0/floatingips: the remote makes the first floating IP it has not made
AllocateOn(w, t, hdr, floating_network_id) ==
    UNION { IF ~Is2xx(s)
            THEN { [w |-> Send(w, t, hdr, "POST", "network", "floatingips", "",
                               <<floating_network_id>>, s, <<>>),
                    r |-> None] }
            ELSE { [w |-> [Send(w, t, hdr, "POST", "network", "floatingips", "",
                                <<floating_network_id>>, s,
                                [id |-> f, port_id |-> None,
                                 floating_ip_address |-> FipAddress(f)])
                           EXCEPT !.floatingips = Put(@, f, [port_id |-> None])],
                    r |-> IF s \in {201, 200}
                          THEN Some([id |-> f, port_id |-> None,
                                     floating_ip_address |-> FipAddress(f)])
                          ELSE None] :
                   f \in { g \in FipIds \ DOMAIN w.floatingips :
                             g = "F1" \/ "F1" \in DOMAIN w.floatingips } } :
            s \in w.answers }

\* floating_network_id: the network given, else get_public_network_id()
allocate_floating_ip(w, t, floating_network_id) ==
    UNION { IF ~p.go THEN { [w |-> p.w, r |-> None] }
            ELSE IF ~IsNone(floating_network_id)
                 THEN AllocateOn(p.w, t, p.hdr, Val(floating_network_id))
            ELSE UNION { IF IsNone(n.r) THEN { [w |-> n.w, r |-> None] }
                         ELSE AllocateOn(n.w, t, p.hdr, Val(n.r)) :
                         n \in get_public_network_id(p.w, t) } :
            p \in Prepare(w, t, "network") }

\* PUT /floatingips/{id} with {"floatingip": {"port_id": None}}
disassociate_floating_ip(w, t, floating_ip_id) ==
    LET result == [id |-> floating_ip_id, port_id |-> None,
                   floating_ip_address |-> FipAddress(floating_ip_id)]
    IN UNION { IF ~p.go THEN { [w |-> p.w, r |-> None] }
               ELSE UNION {
                      IF ~Is2xx(s)
                      THEN { [w |-> Send(p.w, t, p.hdr, "PUT", "network", "floatingips",
                                         floating_ip_id, <<None>>, s, <<>>),
                              r |-> None] }
                      ELSE { [w |-> [Send(p.w, t, p.hdr, "PUT", "network", "floatingips",
                                          floating_ip_id, <<None>>, s, result)
                                     EXCEPT !.floatingips[f].port_id = None],
                              r |-> IF s \in {200, 202} THEN Some(result) ELSE None] :
                             f \in {floating_ip_id} \cap DOMAIN p.w.floatingips } :
                      s \in p.w.answers } :
               p \in Prepare(w, t, "network") }

\* DELETE /floatingips/{id}: True on 204 or 202
delete_floating_ip(w, t, floating_ip_id) ==
    UNION { IF ~p.go THEN { [w |-> p.w, r |-> FALSE] }
            ELSE UNION {
                   IF ~Is2xx(s)
                   THEN { [w |-> Send(p.w, t, p.hdr, "DELETE", "network", "floatingips",
                                      floating_ip_id, <<>>, s, <<>>),
                           r |-> FALSE] }
                   ELSE { [w |-> [Send(p.w, t, p.hdr, "DELETE", "network", "floatingips",
                                       floating_ip_id, <<>>, s, <<>>)
                                  EXCEPT !.floatingips = Del(@, f)],
                           r |-> s \in {204, 202}] :
                          f \in {floating_ip_id} \cap DOMAIN p.w.floatingips } :
                   s \in p.w.answers } :
            p \in Prepare(w, t, "network") }

\* DELETE /servers/{id}/os-interface/{port_id}: True on 202 or 204
detach_interface(w, t, server_id, port_id) ==
    UNION { IF ~p.go THEN { [w |-> p.w, r |-> FALSE] }
            ELSE UNION {
                   IF ~Is2xx(s)
                   THEN { [w |-> Send(p.w, t, p.hdr, "DELETE", "compute", "os-interface",
                                      port_id, <<server_id>>, s, <<>>),
                           r |-> FALSE] }
                   ELSE { [w |-> [Send(p.w, t, p.hdr, "DELETE", "compute", "os-interface",
                                       port_id, <<server_id>>, s, <<>>)
                                  EXCEPT !.ports = Del(@, q)],
                           r |-> s \in {202, 204}] :
                          q \in { x \in {port_id} \cap DOMAIN p.w.ports :
                                    p.w.ports[x].device = server_id } } :
                   s \in p.w.answers } :
            p \in Prepare(w, t, "compute") }

---------------------------------------------------------------------------
(* States shared by the specifications *)

NoSession ==
    /\ token = None
    /\ token_expires = None
    /\ service_catalog = EmptyDict

ExternalRouter == Router("r1", Some([network_id |-> Some("netX")]))
SubnetA == Subnet("subA", "netA", Some("10.0.0.1"))
SubnetB == Subnet("subB", "netB", None)
NetworkA == Network("netA", FALSE)
NetworkB == Network("netB", FALSE)
NetworkX == Network("netX", TRUE)

NoCall == [op |-> "none", args |-> <<>>, before |-> <<>>]

ClientIdle == call = NoCall /\ ret = <<>>
CallersIdle == callers = <<>> /\ auths = 0 /\ writers = <<>>
\* main() past run_polling: the token is set and the three handlers are added
Handlers == {"start", "status", "button_handler"}
Polling == [bot_token |-> Some("123:abc"), handlers |-> Handlers, state |-> "polling"]

\* the bot is polling and has rendered nothing yet; the specifications that do not
\* follow the messages of the chat leave keyboards empty
BotIdle ==
    /\ user_data = EmptyDict
    /\ prompted = None
    /\ screen = "none"
    /\ keyboards = <<>>
    /\ stranger_data = EmptyDict
    /\ application = Polling

\* a direct invocation of a client operation: what was called, on what remote state
Called(op, args, r) ==
    /\ call' = [op |-> op, args |-> args, before |-> ports]
    /\ ret' = r

---------------------------------------------------------------------------
(* SpecSession: the session under a running clock *)

InitSession ==
    /\ now = 0
    /\ NoSession
    /\ routers = <<ExternalRouter>>
    /\ subnets = <<SubnetA, SubnetB>>
    /\ networks = <<NetworkA, NetworkB, NetworkX>>
    /\ answers = Plain
    /\ identity = {BodyFull}
    /\ ports = [p \in {"p1"} |-> Port("S1", "netA", <<FixedIp("10.0.0.9")>>)]
    /\ floatingips = [f \in FipIds |-> [port_id |-> None]]
    /\ sent = <<>>
    /\ ClientIdle /\ CallersIdle /\ BotIdle

Tick ==
    /\ now < MaxTime
    /\ now' = now + 1
    /\ UNCHANGED <<sessionVars, remoteVars, sent, clientVars, callerVars, botVars>>

\* status() and main() call authenticate() whatever the cached token
CallAuthenticate ==
    \E a \in authenticate(World, now) :
           /\ Commit(a.w)
           /\ Called("authenticate", <<>>, a.ok)
           /\ UNCHANGED <<now, routers, answers, identity, callerVars, botVars>>

CallGetServers ==
    \E x \in get_servers(World, now) :
           /\ Commit(x.w)
           /\ Called("get_servers", <<>>, x.r)
           /\ UNCHANGED <<now, routers, answers, identity, callerVars, botVars>>

CallGetFloatingIps ==
    \E x \in get_floating_ips(World, now) :
           /\ Commit(x.w)
           /\ Called("get_floating_ips", <<>>, x.r)
           /\ UNCHANGED <<now, routers, answers, identity, callerVars, botVars>>

NextSession == Tick \/ CallAuthenticate \/ CallGetServers \/ CallGetFloatingIps

SpecSession == InitSession /\ [][NextSession]_vars

\* C1: every request sent to a compute or network endpoint carries a token whose
\* expiry is more than 5 minutes after the time the request is sent
C1_TokenFreshness ==
    \A i \in DOMAIN sent :
        sent[i].svc \in {"compute", "network"} =>
            /\ ~IsNone(sent[i].exp)
            /\ Val(sent[i].exp) > sent[i].at + Skew

---------------------------------------------------------------------------
(* SpecCallers: NCallers handlers reach get_headers() at the same instant,  *)
(* with the cached token absent or past its margin.  The handlers are       *)
(* coroutines of one event loop and requests.post blocks it: between the    *)
(* check and the end of authenticate() no other handler runs.               *)

CallerIds == 1..NCallers

InitCallers ==
    /\ now = 0
    /\ \/ NoSession
       \/ /\ token = Some("tok1")
          /\ token_expires = Some(now + ShortLife)
          /\ service_catalog = StoreCatalog(EmptyDict, CatalogFull)
    /\ routers = <<ExternalRouter>>
    /\ subnets = <<SubnetA, SubnetB>>
    /\ networks = <<NetworkA, NetworkB, NetworkX>>
    /\ answers = Plain
    /\ identity = {BodyFull}
    /\ ports = [p \in {"p1"} |-> Port("S1", "netA", <<FixedIp("10.0.0.9")>>)]
    /\ floatingips = [f \in FipIds |-> [port_id |-> None]]
    /\ sent = <<>>
    /\ ClientIdle /\ BotIdle
    /\ callers = [c \in CallerIds |-> "queued"]
    /\ auths = 0
    /\ writers = <<>>

\* the event loop is free: no handler is inside a blocking call
LoopFree == \A c \in DOMAIN callers : callers[c] # "authenticating"

\* get_headers() up to the point where the authenticate request has left
CallerCheck(c) ==
    /\ callers[c] = "queued"
    /\ LoopFree
    /\ IF is_token_valid(World, now)
       THEN /\ callers' = [callers EXCEPT ![c] = "headers"]
            /\ UNCHANGED <<auths, sent>>
       ELSE /\ callers' = [callers EXCEPT ![c] = "authenticating"]
            /\ auths' = auths + 1
            /\ sent' = PostAuthTokens([World EXCEPT !.sent = sent], now).sent
    /\ UNCHANGED <<now, sessionVars, remoteVars, clientVars, writers, botVars>>

\* the identity service answers; authenticate() and get_headers() return
CallerReturn(c) ==
    /\ callers[c] = "authenticating"
    /\ \E a \in { AuthReply(World, resp) : resp \in AuthResponses(World, now) } :
           /\ token' = a.w.token
           /\ token_expires' = a.w.token_expires
           /\ service_catalog' = a.w.service_catalog
           /\ callers' = [callers EXCEPT ![c] = IF a.ok THEN "headers" ELSE "none"]
    /\ UNCHANGED <<now, remoteVars, sent, auths, clientVars, writers, botVars>>

NextCallers == \E c \in CallerIds : CallerCheck(c) \/ CallerReturn(c)

SpecCallers == InitCallers /\ [][NextCallers]_vars

\* C2: when N callers invoke get_headers() while the cached token is expired or
\* absent, at most one authenticate request is in flight at a time and exactly one
\* authenticate request reaches the identity service
C2_SingleRefresh ==
    /\ Cardinality({ c \in DOMAIN callers : callers[c] = "authenticating" }) <= 1
    /\ (callers # <<>> /\ \A c \in DOMAIN callers : callers[c] \in {"headers", "none"})
          => auths = 1

---------------------------------------------------------------------------
(* SpecFixedIp: remove_fixed_ip_from_interface against ports of every shape *)

\* The fixed-IP lists a port can carry: an address appears on a port at most once
InjectiveSeqs(S, n) ==
    { g \in [1..n -> S] : \A i, j \in 1..n : g[i] = g[j] => i = j }

FixedIpLists ==
    UNION { { [i \in 1..n |-> FixedIp(f[i])] : f \in InjectiveSeqs(Addresses, n) } :
            n \in 0..MaxFixedIps }

InitFixedIp ==
    /\ now = 0
    /\ NoSession
    /\ routers = <<ExternalRouter>>
    /\ subnets = <<SubnetA, SubnetB>>
    /\ networks = <<NetworkA, NetworkB, NetworkX>>
    /\ answers = Plain
    /\ identity = {BodyFull}
    /\ \E l \in FixedIpLists :
         ports = [p \in {"p1", "p2"} |->
                    IF p = "p1" THEN Port("S1", "netA", l)
                    ELSE Port("S2", "netB", <<FixedIp("10.0.1.7")>>)]
    /\ floatingips = [f \in FipIds |-> [port_id |-> None]]
    /\ sent = <<>>
    /\ ClientIdle /\ CallersIdle /\ BotIdle

CallRemoveFixedIp(port_id, ip_address) ==
    \E x \in remove_fixed_ip_from_interface(World, now, port_id, ip_address) :
           /\ Commit(x.w)
           /\ Called("remove_fixed_ip_from_interface", <<port_id, ip_address>>, x.r)
           /\ UNCHANGED <<now, routers, answers, identity, callerVars, botVars>>

NextFixedIp ==
    \E port_id \in {"p1", "p2"}, ip_address \in Addresses :
        CallRemoveFixedIp(port_id, ip_address)

SpecFixedIp == InitFixedIp /\ [][NextFixedIp]_vars

IsRemove == call.op = "remove_fixed_ip_from_interface"
RemovePort == call.args[1]
RemoveAddress == call.args[2]
\* the fixed-IP list of the port when the operation was invoked
ListBefore == call.before[RemovePort].fixed_ips
PortWrites == { i \in DOMAIN sent : sent[i].method \in {"PUT", "PATCH", "POST", "DELETE"}
                                     /\ sent[i].svc # "identity" }
PortRead == \E i \in DOMAIN sent : sent[i].method = "GET" /\ sent[i].res = "ports"
                                   /\ ~IsNone(sent[i].reply)

\* C4: when no entry of the port's fixed-IP list has the given address, the
\* operation returns failure, issues no PUT/PATCH (no mutating request at all) and
\* the remote fixed-IP lists are unchanged
C4_AbsentAddressNoWrite ==
    (IsRemove /\ \A k \in DOMAIN ListBefore : ListBefore[k].ip_address # RemoveAddress)
        => /\ ret = FALSE
           /\ PortWrites = {}
           /\ ports = call.before

\* C4's case: the port was read, carries addresses, none of them the given one
C4_Witness ==
    /\ IsRemove
    /\ PortRead
    /\ ListBefore # <<>>
    /\ \A k \in DOMAIN ListBefore : ListBefore[k].ip_address # RemoveAddress
    /\ ret = FALSE

\* C5: when the removal succeeds, the one list written back is the list read with
\* exactly the entry of the given address taken out and every other entry kept in
\* its order; the port is neither deleted nor detached, no other port changes
C5_RemovesExactlyOneEntry ==
    (IsRemove /\ ret = TRUE) =>
        \E k \in DOMAIN ListBefore :
            LET kept == [i \in 1..(Len(ListBefore) - 1) |->
                            IF i < k THEN ListBefore[i] ELSE ListBefore[i + 1]]
            IN /\ ListBefore[k].ip_address = RemoveAddress
               /\ Cardinality(PortWrites) = 1
               /\ \A i \in PortWrites :
                    /\ sent[i].method = "PUT" /\ sent[i].res = "ports"
                    /\ sent[i].id = RemovePort
                    /\ sent[i].body = kept
               /\ \E i \in DOMAIN sent :
                    /\ sent[i].method = "GET" /\ sent[i].res = "ports"
                    /\ sent[i].reply = Some(ListBefore)
               /\ ports = [call.before EXCEPT ![RemovePort].fixed_ips = kept]

\* C5's case: an entry in the middle or at the end goes, another stays
C5_Witness ==
    /\ IsRemove /\ ret = TRUE
    /\ Len(ListBefore) = 2
    /\ ListBefore[2].ip_address = RemoveAddress
    /\ ports[RemovePort].fixed_ips = <<ListBefore[1]>>

---------------------------------------------------------------------------
(* SpecResolver: the topology queries over projects of every shape *)

InternalRouter == Router("r0", None)
UnsetRouter == Router("r2", Some([network_id |-> None]))
SubnetX == Subnet("subX", "netX", Some("203.0.113.1"))

RouterListings ==
    { <<>>, <<ExternalRouter>>, <<InternalRouter>>, <<UnsetRouter, ExternalRouter>> }

SubnetListings ==
    { <<>>, <<SubnetB>>, <<SubnetA, SubnetB>>, <<SubnetB, SubnetX>> }

InterfaceIps ==
    { <<>>, <<FixedIp("10.0.0.9")>>, <<FixedIp("fd00::1")>>,
      <<FixedIp("::ffff:10.0.0.9")>>, <<FixedIp("fd00::1"), FixedIp("10.0.1.7")>> }

InitResolver ==
    /\ now = 0
    /\ token = Some("tok1")
    /\ token_expires = Some(now + LongLife)
    /\ service_catalog = StoreCatalog(EmptyDict, CatalogFull)
    /\ routers \in RouterListings
    /\ subnets \in SubnetListings
    /\ networks = <<NetworkA, NetworkB, NetworkX>>
    /\ answers = Plain
    /\ identity = {BodyFull}
    /\ \E n1 \in {"netA", "netB"}, l1 \in InterfaceIps,
          second \in { Port("S1", "netA", <<FixedIp("10.0.1.7")>>),
                       Port("S1", "netB", <<FixedIp("10.0.1.7")>>),
                       Port("S1", "netX", <<FixedIp("fd00::1")>>) } :
         ports = [p \in {"p1", "p2"} |-> IF p = "p1" THEN Port("S1", n1, l1) ELSE second]
    /\ floatingips = [f \in FipIds |-> [port_id |-> None]]
    /\ sent = <<>>
    /\ ClientIdle /\ CallersIdle /\ BotIdle

CallFindNetworks ==
    \E x \in find_networks_with_external_gateway(World, now) :
           /\ Commit(x.w)
           /\ Called("find_networks_with_external_gateway", <<>>, x.r)
           /\ UNCHANGED <<now, routers, answers, identity, callerVars, botVars>>

CallGetSuitable(server_id) ==
    \E x \in get_suitable_interface_for_floating_ip(World, now, server_id) :
           /\ Commit(x.w)
           /\ Called("get_suitable_interface_for_floating_ip", <<server_id>>, x.r)
           /\ UNCHANGED <<now, routers, answers, identity, callerVars, botVars>>

NextResolver == CallFindNetworks \/ \E server_id \in ServerIds : CallGetSuitable(server_id)

SpecResolver == InitResolver /\ [][NextResolver]_vars

\* what the listing of a resource returned during the operation: the list, or the
\* empty list when the listing failed or was not asked for
Listed(res) ==
    LET got == { i \in DOMAIN sent : sent[i].method = "GET" /\ sent[i].res = res
                                     /\ ~IsNone(sent[i].reply) }
    IN IF got = {} THEN <<>> ELSE Val(sent[CHOOSE i \in got : TRUE].reply)

\* the networks that own a listed subnet with a gateway IP, provided a listed router
\* names an external-gateway network
GatewayNetworks ==
    IF \E i \in DOMAIN Listed("routers") :
          \E n \in NetIds :
             Listed("routers")[i].external_gateway_info = Some([network_id |-> Some(n)])
    THEN { n \in NetIds : \E j \in DOMAIN Listed("subnets") :
                             /\ Listed("subnets")[j].network_id = n
                             /\ Listed("subnets")[j].gateway_ip # None }
    ELSE {}

\* C7: find_networks_with_external_gateway() returns exactly the networks owning a
\* subnet with a gateway IP when some router has an external-gateway network id,
\* equal or not to those networks, and the empty set when none has
C7_ReachabilityHeuristic ==
    call.op = "find_networks_with_external_gateway" => ret = GatewayNetworks

\* C7's case: the router's external network is netX, the subnet with a gateway is
\* on netA, and netA is returned
C7_Witness ==
    /\ call.op = "find_networks_with_external_gateway"
    /\ routers = <<ExternalRouter>>
    /\ subnets = <<SubnetA, SubnetB>>
    /\ ret = {"netA"}

\* the addresses of the model that are IPv4 addresses
IPv4Addresses == {"10.0.0.9", "10.0.1.7", "10.0.0.12"}
CarriesIPv4(interface) ==
    \E k \in DOMAIN interface.fixed_ips :
        interface.fixed_ips[k].ip_address \in IPv4Addresses

Degraded(res) ==
    \E i \in DOMAIN sent :
        /\ sent[i].method = "GET" /\ sent[i].res = res
        /\ (sent[i].status # 200 \/ Val(sent[i].reply) = <<>>)

---------------------------------------------------------------------------
(* The associate-floating-IP conversation: the handlers behind the buttons *)

\* str(i) for i, item in enumerate(items)
Index(i) == ToString(i - 1)

\* {str(i): item['id'] for i, item in enumerate(items)}
IndexMap(items) ==
    [k \in { Index(i) : i \in DOMAIN items } |->
        items[CHOOSE i \in DOMAIN items : Index(i) = k].id]

\* for x in items: if x['id'] == id: found = x; break
FindById(items, id) ==
    LET hits == { i \in DOMAIN items : items[i].id = id }
    IN IF hits = {} THEN None ELSE Some(items[Least(hits)])

\* context.user_data.get(k, [])
LookupList(ud, k) == IF Has(ud, k) THEN ud[k] ELSE <<>>

Shows(w, ud, pr, screen_) == [w |-> w, ud |-> ud, prompted |-> pr, screen |-> screen_]

\* A handler is the set of its outcomes [w, ud, prompted, screen]
select_server_for_ip(w, t, ud, pr) ==
    { IF ~servers.r.ok THEN Shows(servers.w, Del(ud, "servers"), pr, "servers_failed")
      ELSE Shows(servers.w,
                 Put(Put(Del(ud, "servers"), "servers", servers.r.val),
                     "server_map", IndexMap(servers.r.val)),
                 pr,
                 IF servers.r.val = <<>> THEN "no_servers" ELSE "select_server") :
      servers \in get_servers(w, t) }

\* the server of user_data['servers'] with this id, else get_server_details(id)
ServerFor(w, t, ud, server_id) ==
    LET stored == FindById(LookupList(ud, "servers"), server_id)
    IN IF ~IsNone(stored) THEN { [w |-> w, r |-> stored] }
       ELSE { [w |-> d.w, r |-> IF d.r.ok THEN Some(d.r.val) ELSE None] :
              d \in get_server_details(w, t, server_id) }

select_floating_ip(w, t, ud, pr, server_index) ==
    LET server_id == Lookup(LookupList(ud, "server_map"), server_index)
    IN IF IsNone(server_id) THEN { Shows(w, ud, pr, "server_not_found") }
       ELSE UNION {
              IF ~floating_ips.r.ok
              THEN { Shows(floating_ips.w, ud, pr, "floating_ips_failed") }
              ELSE LET unassociated_ips ==
                           SelectSeq(floating_ips.r.val, LAMBDA ip : IsNone(ip.port_id))
                       ud1 == Put(Put(Put(ud, "floating_ips", unassociated_ips),
                                      "ip_map", IndexMap(unassociated_ips)),
                                  "selected_server_id", Val(server_id))
                   IN IF unassociated_ips = <<>>
                      THEN { Shows(floating_ips.w, ud, pr, "no_available_ips") }
                      ELSE { IF IsNone(server.r)
                             THEN Shows(server.w, ud1, pr, "server_details_failed")
                             ELSE Shows(server.w, ud1, pr, "select_ip") :
                             server \in ServerFor(floating_ips.w, t, ud1, Val(server_id)) } :
              floating_ips \in get_floating_ips(w, t) }

confirm_associate_ip(w, t, ud, pr, ip_index) ==
    LET ip_id == Lookup(LookupList(ud, "ip_map"), ip_index)
        server_id == Lookup(ud, "selected_server_id")
        floating_ip == FindById(LookupList(ud, "floating_ips"), Val(ip_id))
    IN IF IsNone(ip_id) \/ IsNone(server_id) THEN { Shows(w, ud, pr, "invalid_selection") }
       ELSE IF IsNone(floating_ip) THEN { Shows(w, ud, pr, "floating_ip_not_found") }
       ELSE { IF IsNone(server.r) THEN Shows(server.w, ud, pr, "server_details_failed")
              ELSE Shows(server.w,
                         Put(Put(ud, "confirm_ip_id", Val(ip_id)),
                             "confirm_server_id", Val(server_id)),
                         Some([floating_ip_address |-> Val(floating_ip).floating_ip_address,
                               name |-> Val(server.r).name]),
                         "confirm_associate") :
              server \in ServerFor(w, t, ud, Val(server_id)) }

\* A variant that takes the server last selected for the server confirmed
ConfirmedIds_mut(ud) ==
    [ip_id |-> Lookup(ud, "confirm_ip_id"), server_id |-> Lookup(ud, "selected_server_id")]

\* ip_id = user_data.get('confirm_ip_id'); server_id = user_data.get('confirm_server_id')
ConfirmedIds(ud) ==
    [ip_id |-> Lookup(ud, "confirm_ip_id"), server_id |-> Lookup(ud, "confirm_server_id")]

\* for network_id in external_networks: attach_interface(...), until one succeeds;
\* the networks are a list made of a set, so they come in any order
RECURSIVE AttachFirst(_, _, _, _)
AttachFirst(w, t, server_id, external_networks) ==
    IF external_networks = {} THEN { [w |-> w, r |-> None] }
    ELSE UNION { UNION { IF IsNone(x.r)
                         THEN AttachFirst(x.w, t, server_id, external_networks \ {n})
                         ELSE {x} :
                         x \in attach_interface(w, t, server_id, n) } :
                 n \in external_networks }

\* the association call and the message that reports its result
AssociateAndReport(w, t, ud, pr, ip_id, port_id) ==
    { Shows(x.w, ud, pr, IF IsNone(x.r) THEN "associate_failed" ELSE "associated") :
      x \in associate_floating_ip(w, t, ip_id, port_id) }

do_associate_ip(w, t, ud, pr, ip_index) ==
    LET ids == ConfirmedIds(ud)
    IN IF IsNone(ids.ip_id) \/ IsNone(ids.server_id)
       THEN { Shows(w, ud, pr, "invalid_operation") }
       ELSE UNION {
              IF ~IsNone(s.r)
              THEN AssociateAndReport(s.w, t, ud, pr, Val(ids.ip_id), Val(s.r).port_id)
              ELSE UNION {
                     UNION { IF IsNone(a.r)
                             THEN { Shows(a.w, ud, pr, "no_suitable_interface") }
                             ELSE AssociateAndReport(a.w, t, ud, pr, Val(ids.ip_id),
                                                     Val(a.r).port_id) :
                             a \in AttachFirst(e.w, t, Val(ids.server_id), e.r) } :
                     e \in find_networks_with_external_gateway(s.w, t) } :
              s \in get_suitable_interface_for_floating_ip(w, t, Val(ids.server_id)) }

---------------------------------------------------------------------------
(* The add-fixed-IP conversation *)

\* the networks without router:external, or all of them when there is none
AvailableNetworks(nets) ==
    IF SelectSeq(nets, LAMBDA network : ~network.external) = <<>> THEN nets
    ELSE SelectSeq(nets, LAMBDA network : ~network.external)

get_networks_for_fixed_ip(w, t) ==
    { [w |-> n.w, r |-> IF Falsy(n.r) THEN <<>> ELSE AvailableNetworks(n.r.val)] :
      n \in get_networks(w, t) }

\* int(index) of the index a button carries
IntOf(index) == CHOOSE i \in 0..9 : ToString(i) = index

manage_fixed_ips(w, t, ud, pr) ==
    { IF ~servers.r.ok THEN Shows(servers.w, Del(ud, "servers"), pr, "servers_failed")
      ELSE Shows(servers.w,
                 Put(Put(Del(ud, "servers"), "servers", servers.r.val),
                     "server_map", IndexMap(servers.r.val)),
                 pr,
                 IF servers.r.val = <<>> THEN "no_servers" ELSE "select_server_for_fixed_ip") :
      servers \in get_servers(w, t) }

\* fixed_ips.append({ip_address, port_id, subnet_id, interface_index}) for every
\* fixed IP of every interface, in order
RECURSIVE FlatFixedIps(_, _)
FlatFixedIps(interfaces, i) ==
    IF i > Len(interfaces) THEN <<>>
    ELSE [k \in DOMAIN interfaces[i].fixed_ips |->
             [ip_address |-> interfaces[i].fixed_ips[k].ip_address,
              port_id |-> interfaces[i].port_id,
              subnet_id |-> interfaces[i].fixed_ips[k].subnet_id,
              interface_index |-> i - 1]]
         \o FlatFixedIps(interfaces, i + 1)

manage_server_fixed_ips(w, t, ud, pr, server_index) ==
    LET server_id == Lookup(LookupList(ud, "server_map"), server_index)
    IN IF IsNone(server_id) THEN { Shows(w, ud, pr, "server_not_found") }
       ELSE UNION {
              IF IsNone(server.r) THEN { Shows(server.w, ud, pr, "server_details_failed") }
              ELSE { IF Falsy(interfaces.r) THEN Shows(interfaces.w, ud, pr, "no_interfaces")
                     ELSE Shows(interfaces.w,
                                Put(Put(Put(Put(ud, "current_server_id", Val(server_id)),
                                            "current_server_index", server_index),
                                        "server_interfaces", interfaces.r.val),
                                    "fixed_ips", FlatFixedIps(interfaces.r.val, 1)),
                                pr, "server_fixed_ips") :
                     interfaces \in get_server_interfaces(server.w, t, Val(server_id)) } :
              server \in ServerFor(w, t, ud, Val(server_id)) }

select_interface_for_fixed_ip(w, t, ud, pr, server_index) ==
    LET server_id == Lookup(LookupList(ud, "server_map"), server_index)
    IN IF LookupList(ud, "server_interfaces") = <<>> THEN { Shows(w, ud, pr, "no_interfaces") }
       ELSE IF IsNone(server_id) \/ IsNone(FindById(LookupList(ud, "servers"), Val(server_id)))
            THEN { Shows(w, ud, pr, "server_not_found") }
       ELSE { Shows(w, ud, pr, "select_interface") }

\* available_subnets: for each network in turn, its subnets in the listing's order
RECURSIVE AvailableSubnets(_, _)
AvailableSubnets(nets, subs) ==
    IF nets = <<>> THEN <<>>
    ELSE LET network_subnets == SelectSeq(subs, LAMBDA sn : sn.network_id = Head(nets).id)
         IN [k \in DOMAIN network_subnets |->
                [subnet |-> network_subnets[k], network |-> Head(nets)]]
            \o AvailableSubnets(Tail(nets), subs)

\* {str(i): subnet_data['subnet']['id'] for i, subnet_data in enumerate(available_subnets)}
SubnetMap(available_subnets) ==
    [k \in { Index(i) : i \in DOMAIN available_subnets } |->
        available_subnets[IntOf(k) + 1].subnet.id]

\* the rest of select_network_for_fixed_ip once both listings returned
OfferSubnets(w, ud, pr, nets, subs) ==
    IF nets = <<>> \/ Falsy(subs) THEN Shows(w, ud, pr, "networks_failed")
    ELSE IF AvailableSubnets(nets, subs.val) = <<>> THEN Shows(w, ud, pr, "no_subnets")
    ELSE Shows(w,
               Put(Put(ud, "available_subnets", AvailableSubnets(nets, subs.val)),
                   "subnet_map", SubnetMap(AvailableSubnets(nets, subs.val))),
               pr, "select_network")

select_network_for_fixed_ip(w, t, ud, pr, interface_index) ==
    LET interfaces == LookupList(ud, "server_interfaces")
    IN IF interfaces = <<>> \/ IntOf(interface_index) >= Len(interfaces)
       THEN { Shows(w, ud, pr, "invalid_interface") }
       ELSE UNION {
              { OfferSubnets(subs.w,
                             Put(Put(ud, "selected_interface",
                                     interfaces[IntOf(interface_index) + 1]),
                                 "selected_interface_index", interface_index),
                             pr, nets.r, subs.r) :
                subs \in get_subnets(nets.w, t) } :
              nets \in get_networks_for_fixed_ip(w, t) }

confirm_add_fixed_ip(w, t, ud, pr, network_index) ==
    LET subnet_id == Lookup(LookupList(ud, "subnet_map"), network_index)
        selected_interface == Lookup(ud, "selected_interface")
        available_subnets == LookupList(ud, "available_subnets")
        server_id == Lookup(ud, "current_server_id")
        server == IF IsNone(server_id) THEN None
                  ELSE FindById(LookupList(ud, "servers"), Val(server_id))
    IN IF IsNone(subnet_id) \/ IsNone(selected_interface)
       THEN { Shows(w, ud, pr, "invalid_selection") }
       ELSE IF IntOf(network_index) >= Len(available_subnets)
            THEN { Shows(w, ud, pr, "invalid_network") }
       ELSE IF IsNone(server) THEN { Shows(w, ud, pr, "server_not_found") }
       ELSE { Shows(w,
                    Put(Put(ud, "confirm_subnet_id", Val(subnet_id)),
                        "confirm_port_id", Val(selected_interface).port_id),
                    Some([name |-> Val(server).name,
                          port_id |-> Val(selected_interface).port_id,
                          network |-> available_subnets[IntOf(network_index) + 1].network.name,
                          subnet |-> available_subnets[IntOf(network_index) + 1].subnet.id]),
                    "confirm_add_fixed_ip") }

do_add_fixed_ip(w, t, ud, pr, network_index) ==
    IF \/ IsNone(Lookup(ud, "confirm_subnet_id"))
       \/ IsNone(Lookup(ud, "confirm_port_id"))
       \/ IsNone(Lookup(ud, "current_server_id"))
    THEN { Shows(w, ud, pr, "invalid_operation") }
    ELSE { Shows(x.w, ud, pr, IF x.r THEN "fixed_ip_added" ELSE "add_fixed_ip_failed") :
           x \in add_fixed_ip_to_interface(w, t, ud["confirm_port_id"],
                                           ud["confirm_subnet_id"]) }

---------------------------------------------------------------------------
(* Spec: one authorized user pressing buttons, old messages' buttons included *)

\* the indices on the buttons of the server and the floating IP keyboards
ServerButtons == { Index(i) : i \in DOMAIN ServerList }
IpButtons == { Index(i) : i \in 1..Cardinality(FipIds) }

Init ==
    /\ now = 0
    /\ token = Some("tok1")
    /\ token_expires = Some(now + LongLife)
    /\ service_catalog = StoreCatalog(EmptyDict, CatalogFull)
    /\ \/ /\ routers = <<ExternalRouter>>
          /\ \E first \in { Port("S1", "netA", <<FixedIp("10.0.0.9")>>),
                            Port("S1", "netB", <<FixedIp("10.0.1.7")>>) } :
               ports = [p \in {"p1"} |-> first]
       \/ /\ routers = <<InternalRouter>>
          /\ ports = [p \in {"p1"} |-> Port("S1", "netB", <<FixedIp("fd00::1")>>)]
    /\ subnets = <<SubnetA, SubnetB>>
    /\ networks = <<NetworkA, NetworkB, NetworkX>>
    /\ answers = Plain
    /\ identity = {BodyFull}
    /\ floatingips = [f \in FipIds |-> [port_id |-> None]]
    /\ sent = <<>>
    /\ ClientIdle /\ CallersIdle /\ BotIdle

\* the handler ran: what it sent, stored and rendered
Handled(event, x) ==
    /\ Commit(x.w)
    /\ user_data' = x.ud
    /\ prompted' = x.prompted
    /\ screen' = x.screen
    /\ Called(event, <<>>, None)
    /\ UNCHANGED <<now, routers, answers, identity, callerVars, keyboards,
                   stranger_data, application>>

\* /start
OnStart ==
    \E x \in { Shows(World, EmptyDict, prompted, "main_menu") } :
        Handled("start", x)

\* callback 'associate_floating_ip'
OnAssociateFloatingIp ==
    \E x \in select_server_for_ip(World, now, user_data, prompted) :
        Handled("associate_floating_ip", x)

\* callback 'select_server|i'
OnSelectServer(server_index) ==
    \E x \in select_floating_ip(World, now, user_data, prompted, server_index) :
        Handled("select_server", x)

\* callback 'select_ip|i'
OnSelectIp(ip_index) ==
    \E x \in confirm_associate_ip(World, now, user_data, prompted, ip_index) :
        Handled("select_ip", x)

\* callback 'confirm_associate|i'
OnConfirmAssociate(ip_index) ==
    \E x \in do_associate_ip(World, now, user_data, prompted, ip_index) :
        Handled("confirm_associate", x)

\* callback 'cancel_operation': "Operation cancelled.", then back_to_main
OnCancelOperation ==
    \E x \in { Shows(World, user_data, prompted, "main_menu") } :
        Handled("cancel_operation", x)

Next ==
    \/ OnStart
    \/ OnAssociateFloatingIp
    \/ \E server_index \in ServerButtons : OnSelectServer(server_index)
    \/ \E ip_index \in IpButtons : OnSelectIp(ip_index)
    \/ \E ip_index \in IpButtons : OnConfirmAssociate(ip_index)
    \/ OnCancelOperation

Spec == Init /\ [][Next]_vars

\* the keys of user_data that hold the user's selection in this conversation
SelectionKeys == {"selected_server_id", "confirm_ip_id", "confirm_server_id"}

\* C3: after the cancel event user_data holds no selected or confirmed server or
\* floating IP and the main menu is shown, whatever step the event was issued from
C3_CancelDiscardsSelection ==
    call.op = "cancel_operation" =>
        (DOMAIN user_data \cap SelectionKeys = {} /\ screen = "main_menu")

\* the association calls of the event in progress
AssociationPuts ==
    { i \in DOMAIN sent : sent[i].method = "PUT" /\ sent[i].res = "floatingips" }
AttachPosts ==
    { i \in DOMAIN sent : sent[i].method = "POST" /\ sent[i].res = "os-interface" }
InterfaceGets ==
    { i \in DOMAIN sent : sent[i].method = "GET" /\ sent[i].res = "os-interface" }

\* the confirm event ran to an association or to a failure report
AssociateEnded ==
    /\ call.op = "confirm_associate"
    /\ screen \in {"associated", "associate_failed", "no_suitable_interface"}

\* C6: when every listing answered, a reachable network exists and the server has no
\* interface on one, the confirm event attempts an attach before it associates or
\* reports failure
C6_AttachBeforeAssociate ==
    ( /\ AssociateEnded
      /\ \A i \in DOMAIN sent : sent[i].method = "GET" => ~IsNone(sent[i].reply)
      /\ GatewayNetworks # {}
      /\ \A k \in DOMAIN Listed("os-interface") :
            Listed("os-interface")[k].net_id \notin GatewayNetworks )
    => \E j \in AttachPosts : \A i \in AssociationPuts : j < i

\* C9: an association call that follows an attach has exactly one interface listing
\* between the two, and goes to a port that has an IPv4 fixed IP
C9_ReResolveAfterAttach ==
    call.op = "confirm_associate" =>
        \A i \in AssociationPuts : \A j \in AttachPosts :
            j < i => /\ Cardinality({ m \in InterfaceGets : j < m /\ m < i }) = 1
                     /\ CarriesIPv4(ports[sent[i].body[1]])

\* C36: when the confirm event ends in a failure report, the server has the ports
\* it had when the event began
C36_FailedAssociationLeavesServer ==
    (call.op = "confirm_associate"
     /\ screen \in {"associate_failed", "no_suitable_interface"}) =>
        { p \in DOMAIN ports : ports[p].device \in ServerIds }
            = { p \in DOMAIN call.before : call.before[p].device \in ServerIds }

\* the workflow was cancelled, or the confirm event has associated the floating IP
CancelledOrFinished ==
    \/ call.op = "cancel_operation"
    \/ call.op = "confirm_associate" /\ screen = "associated"

\* C37: a confirm event that comes straight after a cancel, or after a confirm
\* that associated the floating IP, with no selection in between, sends no request
\* other than a GET
C37_NoMutationAfterCancel ==
    [][(CancelledOrFinished /\ call'.op = "confirm_associate") =>
         \A i \in DOMAIN sent' : sent'[i].method = "GET"]_vars

\* the floating IP and the server the last confirmation prompt named
PromptedIp == CHOOSE f \in FipIds : FipAddress(f) = Val(prompted).floating_ip_address
PromptedServer ==
    ServerList[CHOOSE i \in DOMAIN ServerList :
                  ServerList[i].name = Val(prompted).name].id

C23_StopAtFirstFailure ==
    call.op = "confirm_associate" =>
        \A i \in InterfaceGets :
            sent[i].status # 200 =>
                \A j \in AttachPosts \cup AssociationPuts : j < i

\* the keys of user_data written by the steps that follow the choice of a server
DownstreamKeys == {"confirm_ip_id", "confirm_server_id"}

\* C21: when the user selects a server again and the floating IPs are offered, no
\* floating IP or server confirmed in an earlier pass is left in user_data
C21_ReselectClearsDownstream ==
    (call.op = "select_server" /\ screen = "select_ip") =>
        DOMAIN user_data \cap DownstreamKeys = {}

---------------------------------------------------------------------------
(* SpecAddFixedIp: the add-fixed-IP conversation over projects whose networks  *)
(* are internal, external or both                                              *)

NetworkListings ==
    { <<NetworkA, NetworkB, NetworkX>>, <<NetworkX, NetworkB>>, <<NetworkX>> }

InterfaceButtons == {"0", "1"}
SubnetButtons == {"0", "1"}

InitAddFixedIp ==
    /\ now = 0
    /\ token = Some("tok1")
    /\ token_expires = Some(now + LongLife)
    /\ service_catalog = StoreCatalog(EmptyDict, CatalogFull)
    /\ routers = <<ExternalRouter>>
    /\ subnets = <<SubnetA, SubnetB, SubnetX>>
    /\ networks \in NetworkListings
    /\ answers = Plain
    /\ identity = {BodyFull}
    /\ ports = [p \in {"p1"} |-> Port("S1", "netA", <<FixedIp("10.0.0.9")>>)]
    /\ floatingips = [f \in FipIds |-> [port_id |-> None]]
    /\ sent = <<>>
    /\ ClientIdle /\ CallersIdle /\ BotIdle

\* callback 'manage_fixed_ips'
OnManageFixedIps ==
    \E x \in manage_fixed_ips(World, now, user_data, prompted) :
        Handled("manage_fixed_ips", x)

\* callback 'select_server_for_fixed_ip|i'
OnSelectServerForFixedIp(server_index) ==
    \E x \in manage_server_fixed_ips(World, now, user_data, prompted, server_index) :
        Handled("select_server_for_fixed_ip", x)

\* callback 'add_fixed_ip|i'
OnAddFixedIp(server_index) ==
    \E x \in select_interface_for_fixed_ip(World, now, user_data, prompted, server_index) :
        Handled("add_fixed_ip", x)

\* callback 'select_interface|i'
OnSelectInterface(interface_index) ==
    \E x \in select_network_for_fixed_ip(World, now, user_data, prompted, interface_index) :
        Handled("select_interface", x)

\* callback 'select_network|i'
OnSelectNetwork(network_index) ==
    \E x \in confirm_add_fixed_ip(World, now, user_data, prompted, network_index) :
        Handled("select_network", x)

\* callback 'confirm_add_fixed_ip|i'
OnConfirmAddFixedIp(network_index) ==
    \E x \in do_add_fixed_ip(World, now, user_data, prompted, network_index) :
        Handled("confirm_add_fixed_ip", x)

NextAddFixedIp ==
    \/ OnManageFixedIps
    \/ \E server_index \in ServerButtons : OnSelectServerForFixedIp(server_index)
    \/ \E server_index \in ServerButtons : OnAddFixedIp(server_index)
    \/ \E interface_index \in InterfaceButtons : OnSelectInterface(interface_index)
    \/ \E network_index \in SubnetButtons : OnSelectNetwork(network_index)
    \/ \E network_index \in SubnetButtons : OnConfirmAddFixedIp(network_index)

SpecAddFixedIp == InitAddFixedIp /\ [][NextAddFixedIp]_vars

AddFixedIpEvents ==
    {"manage_fixed_ips", "select_server_for_fixed_ip", "add_fixed_ip", "select_interface",
     "select_network", "confirm_add_fixed_ip"}

\* C11: in every event of the add-fixed-IP conversation no POST goes to /ports or
\* os-interface and no port appears; the only write is one PUT to the confirmed
\* port, whose list is the list the preceding GET of that port returned followed by
\* one entry that names the confirmed subnet and no address; no other port changes
C11_AddTargetsExistingPort ==
    call.op \in AddFixedIpEvents =>
        /\ \A i \in DOMAIN sent :
              ~(sent[i].method = "POST" /\ sent[i].res \in {"ports", "os-interface"})
        /\ DOMAIN ports = DOMAIN call.before
        /\ Cardinality(PortWrites) <= 1
        /\ PortWrites = {} => ports = call.before
        /\ \A i \in PortWrites :
              /\ call.op = "confirm_add_fixed_ip"
              /\ sent[i].method = "PUT" /\ sent[i].res = "ports"
              /\ sent[i].id = user_data["confirm_port_id"]
              /\ i > 1 /\ sent[i - 1].method = "GET" /\ sent[i - 1].res = "ports"
              /\ sent[i - 1].id = sent[i].id
              /\ sent[i].body = Val(sent[i - 1].reply)
                                   \o << [subnet_id |-> user_data["confirm_subnet_id"]] >>
              /\ \A q \in DOMAIN ports \ {sent[i].id} : ports[q] = call.before[q]

\* C11's case: the port carried an address, the add succeeded and the port carries
\* that address and a second one
C11_Witness ==
    /\ call.op = "confirm_add_fixed_ip"
    /\ screen = "fixed_ip_added"
    /\ call.before["p1"].fixed_ips = <<FixedIp("10.0.0.9")>>
    /\ Len(ports["p1"].fixed_ips) = 2
    /\ ports["p1"].fixed_ips[1] = FixedIp("10.0.0.9")

\* the (subnet, network) pairs the event in progress offers on its keyboard
OfferedSubnets ==
    IF screen = "select_network"
    THEN { <<user_data["available_subnets"][i].subnet.id,
             user_data["available_subnets"][i].network.id>> :
           i \in DOMAIN user_data["available_subnets"] }
    ELSE {}

\* the subnets of the networks that are not external, with their networks
InternalSubnets ==
    { <<subnets[j].id, subnets[j].network_id>> :
      j \in { k \in DOMAIN subnets :
                \E i \in DOMAIN networks : /\ networks[i].id = subnets[k].network_id
                                           /\ ~networks[i].external } }

\* C20: when both listings answered, the subnets offered for a new fixed IP are
\* exactly the subnets of the networks that are not external, none at all when
\* every network is external
C20_NoExternalSubnets ==
    ( /\ call.op = "select_interface"
      /\ Len(sent) = 2
      /\ \A i \in DOMAIN sent : sent[i].method = "GET" /\ ~IsNone(sent[i].reply) )
    => OfferedSubnets = InternalSubnets

---------------------------------------------------------------------------
(* SpecWriters: two clients of the one network service update the fixed IPs  *)
(* of port p1 at the same time, each running add_fixed_ip_to_interface or    *)
(* remove_fixed_ip_from_interface.  A client blocks in its own process only; *)
(* the service takes the requests of both in the order they arrive.          *)

WriterIds == {1, 2}

WriterOps ==
    { [op |-> "add", arg |-> "subA"], [op |-> "add", arg |-> "subB"],
      [op |-> "remove", arg |-> "10.0.0.9"] }

Writer(o) ==
    [pc |-> "start", op |-> o.op, arg |-> o.arg, hdr |-> NoHeaders, status |-> NoAnswer,
     fixed_ips |-> <<>>, r |-> FALSE]

InitWriters ==
    /\ now = 0
    /\ token = Some("tok1")
    /\ token_expires = Some(now + LongLife)
    /\ service_catalog = StoreCatalog(EmptyDict, CatalogFull)
    /\ routers = <<ExternalRouter>>
    /\ subnets = <<SubnetA, SubnetB>>
    /\ networks = <<NetworkA, NetworkB, NetworkX>>
    /\ answers = Plain
    /\ identity = {BodyFull}
    /\ \E l \in { <<>>, <<FixedIp("10.0.0.9")>> } :
         ports = [p \in {"p1"} |-> Port("S1", "netA", l)]
    /\ floatingips = [f \in FipIds |-> [port_id |-> None]]
    /\ sent = <<>>
    /\ ClientIdle /\ BotIdle
    /\ callers = <<>> /\ auths = 0
    /\ \E o1, o2 \in WriterOps : writers = [c \in WriterIds |-> Writer(IF c = 1 THEN o1 ELSE o2)]

\* the operation up to the answer to its GET
WriterGet(c) ==
    /\ writers[c].pc = "start"
    /\ \E p \in Prepare(World, now, "network") :
         \E g \in IF p.go THEN GetPort(p.w, now, p.hdr, "p1")
                  ELSE { [w |-> p.w, status |-> NoAnswer, fixed_ips |-> <<>>] } :
            /\ Commit(g.w)
            /\ writers' = [writers EXCEPT ![c].pc = "read", ![c].hdr = p.hdr,
                                          ![c].status = g.status,
                                          ![c].fixed_ips = g.fixed_ips]
    /\ Called("writer_get", <<c>>, None)
    /\ UNCHANGED <<now, routers, answers, identity, callers, auths, botVars>>

\* the rest of the operation, on the list its GET returned
WriterRest(wr, w, t) ==
    IF wr.op = "add"
    THEN AddTo([w |-> w, status |-> wr.status, fixed_ips |-> wr.fixed_ips], t, wr.hdr,
               "p1", wr.arg)
    ELSE RemoveFrom([w |-> w, status |-> wr.status, fixed_ips |-> wr.fixed_ips], t, wr.hdr,
                    "p1", wr.arg)

WriterPut(c) ==
    /\ writers[c].pc = "read"
    /\ \E x \in WriterRest(writers[c], World, now) :
            /\ Commit(x.w)
            /\ writers' = [writers EXCEPT ![c].pc = "done", ![c].r = x.r]
    /\ Called("writer_put", <<c>>, None)
    /\ UNCHANGED <<now, routers, answers, identity, callers, auths, botVars>>

NextWriters == \E c \in WriterIds : WriterGet(c) \/ WriterPut(c)

SpecWriters == InitWriters /\ [][NextWriters]_vars

\* the list a writer means to leave on the port, given the list it read
Intended(wr) ==
    IF wr.op = "add" THEN Append(wr.fixed_ips, [subnet_id |-> wr.arg])
    ELSE SelectSeq(wr.fixed_ips, LAMBDA ip : ip.ip_address # wr.arg)

\* a writer's change is on the port: an address of the subnet it added from, or no
\* entry of the address it removed
ChangeKept(wr) ==
    IF wr.op = "add"
    THEN \E k \in DOMAIN ports["p1"].fixed_ips : ports["p1"].fixed_ips[k].subnet_id = wr.arg
    ELSE \A k \in DOMAIN ports["p1"].fixed_ips : ports["p1"].fixed_ips[k].ip_address # wr.arg

\* C12: a writer's PUT carries no version of what it read and the service accepts
\* it whatever was written since: when the PUT succeeds the port holds the list the
\* writer computed from its own GET, with an address assigned to a new entry, and
\* nothing of what another writer wrote in between
C12_LastWriteReplacesList ==
    (call.op = "writer_put" /\ writers[call.args[1]].r) =>
        /\ Len(sent) = 1 /\ sent[1].method = "PUT"
        /\ sent[1].body = Intended(writers[call.args[1]])
        /\ \A k \in DOMAIN sent[1].body :
              "ip_address" \in DOMAIN sent[1].body[k]
                  => ports["p1"].fixed_ips[k] = sent[1].body[k]
        /\ Len(ports["p1"].fixed_ips) = Len(sent[1].body)

\* C12's case: both writers read the port before either wrote, both report success,
\* and the port lacks the change of the writer that wrote first
C12_Witness ==
    /\ \A c \in WriterIds : writers[c].pc = "done" /\ writers[c].r
    /\ writers[1].fixed_ips = writers[2].fixed_ips
    /\ writers[1].op = "add" /\ writers[1].arg = "subB"
    /\ ~ChangeKept(writers[1])
    /\ ChangeKept(writers[2])

---------------------------------------------------------------------------
(* SpecClient: every operation of the resource client invoked directly:     *)
(* with a session against services that answer with any status of the model *)
(* or not at all, and without a session or with a catalog that lacks a      *)
(* service against services that work or fail outright                      *)

SessionWith(catalog) ==
    /\ token = Some("tok1")
    /\ token_expires = Some(now + LongLife)
    /\ service_catalog = StoreCatalog(EmptyDict, catalog)

InitClient ==
    /\ now = 0
    /\ \/ SessionWith(CatalogFull) /\ answers = AnyStatus
       \/ NoSession /\ answers = Plain
       \/ SessionWith(CatalogNetwork) /\ answers = Plain
       \/ SessionWith(<< CatalogFull[1] >>) /\ answers = Plain
    /\ routers = <<ExternalRouter>>
    /\ subnets = <<SubnetA, SubnetB>>
    /\ networks = <<NetworkA, NetworkB, NetworkX>>
    /\ identity = {BodyFull}
    /\ ports = [p \in {"p1"} |-> Port("S1", "netA", <<FixedIp("10.0.0.9")>>)]
    /\ floatingips = [f \in FipIds |-> [port_id |-> IF f = "F1" THEN Some("p1") ELSE None]]
    /\ sent = <<>>
    /\ ClientIdle /\ CallersIdle /\ BotIdle

\* the operation ran: what it sent and changed, whether it succeeded and what it
\* returned
Invoked(op, x, ok) ==
    /\ Commit(x.w)
    /\ call' = [op |-> op, args |-> <<>>, before |-> <<>>]
    /\ ret' = [ok |-> ok, raw |-> x.r]
    /\ UNCHANGED <<now, routers, answers, identity, callerVars, botVars>>

ClientGetServers ==
    \E x \in get_servers(World, now) : Invoked("get_servers", x, x.r.ok)
ClientGetServerDetails ==
    \E x \in get_server_details(World, now, "S1") : Invoked("get_server_details", x, x.r.ok)
ClientGetNetworks ==
    \E x \in get_networks(World, now) : Invoked("get_networks", x, x.r.ok)
ClientGetSubnets ==
    \E x \in get_subnets(World, now) : Invoked("get_subnets", x, x.r.ok)
ClientGetRouters ==
    \E x \in get_routers(World, now) : Invoked("get_routers", x, x.r.ok)
ClientGetFloatingIps ==
    \E x \in get_floating_ips(World, now) : Invoked("get_floating_ips", x, x.r.ok)
ClientGetPorts ==
    \E x \in get_ports(World, now) : Invoked("get_ports", x, x.r.ok)
ClientGetServerInterfaces ==
    \E x \in get_server_interfaces(World, now, "S1") :
        Invoked("get_server_interfaces", x, x.r.ok)
ClientCreateNetwork ==
    \E x \in create_network(World, now, "private") :
        Invoked("create_network", x, ~IsNone(x.r))
ClientAllocateFloatingIp ==
    \E x \in allocate_floating_ip(World, now, Some("netX")) :
        Invoked("allocate_floating_ip", x, ~IsNone(x.r))
ClientAssociateFloatingIp ==
    \E x \in associate_floating_ip(World, now, "F1", "p1") :
        Invoked("associate_floating_ip", x, ~IsNone(x.r))
ClientDisassociateFloatingIp ==
    \E x \in disassociate_floating_ip(World, now, "F2") :
        Invoked("disassociate_floating_ip", x, ~IsNone(x.r))
ClientDeleteFloatingIp ==
    \E x \in delete_floating_ip(World, now, "F2") : Invoked("delete_floating_ip", x, x.r)
ClientAttachInterface ==
    \E x \in attach_interface(World, now, "S1", "netB") :
        Invoked("attach_interface", x, ~IsNone(x.r))
ClientDetachInterface ==
    \E x \in detach_interface(World, now, "S1", "p9") : Invoked("detach_interface", x, x.r)
ClientAddFixedIp ==
    \E x \in add_fixed_ip_to_interface(World, now, "p1", "subB") :
        Invoked("add_fixed_ip_to_interface", x, x.r)
ClientRemoveFixedIp ==
    \E x \in remove_fixed_ip_from_interface(World, now, "p1", "10.0.1.7") :
        Invoked("remove_fixed_ip_from_interface", x, x.r)

NextClient ==
    \/ ClientGetServers \/ ClientGetServerDetails \/ ClientGetNetworks
    \/ ClientGetSubnets \/ ClientGetRouters \/ ClientGetFloatingIps \/ ClientGetPorts
    \/ ClientGetServerInterfaces \/ ClientCreateNetwork \/ ClientAllocateFloatingIp
    \/ ClientAssociateFloatingIp \/ ClientDisassociateFloatingIp
    \/ ClientDeleteFloatingIp \/ ClientAttachInterface \/ ClientDetachInterface
    \/ ClientAddFixedIp \/ ClientRemoveFixedIp

SpecClient == InitClient /\ [][NextClient]_vars

\* the authenticate requests of the call
AuthPosts == { i \in DOMAIN sent : sent[i].svc = "identity" }

\* the requests of the operation to the compute and network services
ResourceRequests == { i \in DOMAIN sent : sent[i].svc \in {"compute", "network"} }

NetworkPosts ==
    { i \in DOMAIN sent : sent[i].method = "POST" /\ sent[i].res = "networks" }
SubnetPosts ==
    { i \in DOMAIN sent : sent[i].method = "POST" /\ sent[i].res = "subnets" }

\* C13: create_network sends the subnet creation only after a network creation
\* answered 200 or 201, and when the subnet creation then fails, by its status or
\* by getting no answer, the operation returns the network that was created
C13_PartialSuccess ==
    call.op = "create_network" =>
        \A j \in SubnetPosts :
            /\ \E i \in NetworkPosts : i < j /\ sent[i].status \in {200, 201}
            /\ sent[j].status \notin {200, 201} =>
                  /\ ret.ok
                  /\ \E i \in NetworkPosts : ret.raw = sent[i].reply

\* the operations that go to the compute service; the others go to the network
\* service
ComputeOps ==
    {"get_servers", "get_server_details", "get_server_interfaces", "attach_interface",
     "detach_interface"}
ServiceOf(op) == IF op \in ComputeOps THEN "compute" ELSE "network"

\* C16: an operation whose service kind is not in the cached catalog returns failure
\* and sends no request to a compute or network URL; get_server_details included
C16_MissingEndpoint ==
    (call.op # "none" /\ ~Has(service_catalog, ServiceOf(call.op))) =>
        /\ ~ret.ok
        /\ ResourceRequests = {}

\* C16's case: a valid session whose catalog has the network service only, and
\* get_server_details
C16_Witness ==
    /\ call.op = "get_server_details"
    /\ token # None
    /\ Has(service_catalog, "network") /\ ~Has(service_catalog, "compute")
    /\ ~ret.ok
    /\ sent = <<>>

\* the operation asked for a token and was refused
AuthRefused ==
    \E i \in DOMAIN sent : sent[i].svc = "identity" /\ sent[i].status # StatusCreated

\* C17: an operation that cannot obtain headers, the cached token being invalid and
\* the authentication refused, returns failure and sends no request to a compute or
\* network endpoint
C17_FailFastWithoutHeaders ==
    (call.op # "none" /\ AuthRefused) =>
        /\ ~ret.ok
        /\ ResourceRequests = {}

\* C17's case: an earlier token is cached with the full catalog but is no longer
\* valid, the authentication is refused, and add_fixed_ip_to_interface fails
C17_Witness ==
    /\ call.op = "add_fixed_ip_to_interface"
    /\ token # None /\ Has(service_catalog, "network")
    /\ AuthRefused
    /\ ~ret.ok
    /\ Len(sent) = 1

\* how an outcome of an operation failed, read off the requests it sent: the
\* authentication was refused, the last request got no answer, or it got a status
FailureKind(x) ==
    IF \E i \in DOMAIN x.w.sent : /\ x.w.sent[i].svc = "identity"
                                  /\ x.w.sent[i].status # StatusCreated
    THEN <<"authentication">>
    ELSE IF x.w.sent = <<>> THEN <<"no request">>
    ELSE IF x.w.sent[Len(x.w.sent)].status = NoAnswer THEN <<"transport">>
    ELSE <<"remote", x.w.sent[Len(x.w.sent)].status>>

\* two outcomes that failed in different ways return different results
Distinguishes(outcomes, failed(_)) ==
    \A x, y \in outcomes :
        (failed(x) /\ failed(y) /\ FailureKind(x) # FailureKind(y)) => x.r # y.r

\* C18: what get_servers and delete_floating_ip return on failure tells a transport
\* fault from a refused request from a failed authentication, and tells the status
\* of a refused request
C18_FailureKindsDistinguishable ==
    /\ call.op = "get_servers"
          => Distinguishes(get_servers(World, now), LAMBDA x : ~x.r.ok)
    /\ call.op = "delete_floating_ip"
          => Distinguishes(delete_floating_ip(World, now, "F2"), LAMBDA x : ~x.r)

\* C19: an operation whose requests to the compute and network services were all
\* answered with a 2xx status returns success
C19_Any2xxIsSuccess ==
    ( /\ call.op # "none"
      /\ ResourceRequests # {}
      /\ \A i \in ResourceRequests : Is2xx(sent[i].status) )
    => ret.ok

\* two requests that are the same call: method, service, resource, id and body
SameRequest(a, b) ==
    /\ a.method = b.method /\ a.svc = b.svc /\ a.res = b.res
    /\ a.id = b.id /\ a.body = b.body

\* C25: one invocation of an operation sends no request twice, and sends no
\* authenticate request after a request to the compute or network service
C25_NoAutomaticRetries ==
    call.op # "none" =>
        /\ \A i, j \in DOMAIN sent : i # j => ~SameRequest(sent[i], sent[j])
        /\ \A i \in ResourceRequests : \A j \in AuthPosts : j < i

\* C25's case: get_servers authenticated, its one request was answered 500 or not
\* at all, and it returned failure
C25_Witness ==
    /\ call.op = "get_servers"
    /\ Len(sent) = 2
    /\ sent[1].svc = "identity"
    /\ sent[2].svc = "compute" /\ sent[2].status \in {NoAnswer, 500}
    /\ ~ret.ok

---------------------------------------------------------------------------
(* SpecRefresh: get_headers() and authenticate() under a running clock, with *)
(* an identity service whose catalog may change from one token to the next   *)

InitRefresh ==
    /\ now = 0
    /\ NoSession
    /\ routers = <<ExternalRouter>>
    /\ subnets = <<SubnetA, SubnetB>>
    /\ networks = <<NetworkA, NetworkB, NetworkX>>
    /\ answers = Plain
    /\ identity = {BodyFull, BodyNetwork, BodyInternal, BodyNoCatalog}
    /\ ports = [p \in {"p1"} |-> Port("S1", "netA", <<FixedIp("10.0.0.9")>>)]
    /\ floatingips = [f \in FipIds |-> [port_id |-> None]]
    /\ sent = <<>>
    /\ ClientIdle /\ CallersIdle /\ BotIdle

\* the session call ran: what it returned, when, and the session it started from
SessionCalled(op, w, r) ==
    /\ Commit(w)
    /\ call' = [op |-> op, args |-> <<>>, before |-> <<>>, at |-> now,
                session |-> [token |-> token, token_expires |-> token_expires,
                             service_catalog |-> service_catalog]]
    /\ ret' = r
    /\ UNCHANGED <<now, routers, answers, identity, callerVars, botVars>>

RefreshTick ==
    /\ now < MaxTime
    /\ now' = now + 1
    /\ UNCHANGED <<sessionVars, remoteVars, sent, clientVars, callerVars, botVars>>

RefreshAuthenticate ==
    \E a \in authenticate(World, now) :
        SessionCalled("authenticate", a.w, IF a.ok THEN Some(Headers(a.w)) ELSE None)

RefreshGetHeaders ==
    \E h \in get_headers(World, now) : SessionCalled("get_headers", h.w, h.hdr)

NextRefresh == RefreshTick \/ RefreshAuthenticate \/ RefreshGetHeaders

SpecRefresh == InitRefresh /\ [][NextRefresh]_vars

\* a token was cached when the call began, and the call began more than 5 minutes
\* before its expiry
CachedAndFresh ==
    /\ call.session.token # None
    /\ call.session.token_expires # None
    /\ call.at + Skew < Val(call.session.token_expires)

\* the one authenticate request of the call was answered 201 with a body that has
\* every field
AuthSucceeded ==
    /\ sent[1].status = StatusCreated
    /\ Val(sent[1].reply).complete

C15_SessionReplacedWholesale ==
    (call.op \in {"authenticate", "get_headers"} /\ sent # <<>>) =>
        IF AuthSucceeded
        THEN /\ token = Some(FreshToken(call.session.token))
             /\ token_expires = Some(Val(sent[1].reply).expires_at)
             /\ service_catalog = StoreCatalog(EmptyDict, Val(sent[1].reply).catalog)
        ELSE /\ token = call.session.token
             /\ token_expires = call.session.token_expires
             /\ service_catalog = call.session.service_catalog

\* the catalog of the response to the call's authenticate request
ReturnedCatalog == Val(sent[1].reply).catalog

\* the endpoints of a service whose interface is 'public', by position
PublicEndpoints(service) ==
    { e \in DOMAIN service.endpoints : service.endpoints[e].interface = "public" }

\* C26: after an authenticate that succeeded, every service type of the returned
\* catalog that has a public endpoint is mapped to the URL of the first of them, and
\* a type with none has the entry it had before the call, or no entry
C26_CatalogExtraction ==
    (call.op \in {"authenticate", "get_headers"} /\ sent # <<>> /\ AuthSucceeded) =>
        \A k \in DOMAIN ReturnedCatalog :
            IF PublicEndpoints(ReturnedCatalog[k]) = {}
            THEN Lookup(service_catalog, ReturnedCatalog[k].type)
                     = Lookup(call.session.service_catalog, ReturnedCatalog[k].type)
            ELSE Lookup(service_catalog, ReturnedCatalog[k].type)
                     = Some(ReturnedCatalog[k].endpoints[
                                Least(PublicEndpoints(ReturnedCatalog[k]))].url)

\* C26's case: the first authentication returned a catalog whose compute service has
\* no public endpoint and whose network service has two behind an internal one
C26_Witness ==
    /\ call.op = "authenticate"
    /\ sent # <<>> /\ AuthSucceeded
    /\ ReturnedCatalog = CatalogInternal
    /\ call.session.service_catalog = EmptyDict
    /\ ~Has(service_catalog, "compute")
    /\ Lookup(service_catalog, "network") = Some("http://neutron")

---------------------------------------------------------------------------
(* SpecPublic: the choice of a public network, over listings of networks of   *)
(* every kind in every order                                                 *)

NetworkPrivate   == [id |-> "n1", name |-> "private",    external |-> FALSE]
NetworkMyPublic  == [id |-> "n2", name |-> "my-PUBLIC",  external |-> FALSE]
NetworkPublic431 == [id |-> "n3", name |-> "Public-431", external |-> FALSE]
NetworkPublic16  == [id |-> "n4", name |-> "public-16",  external |-> FALSE]
NetworkPublic167 == [id |-> "n5", name |-> "public-167", external |-> TRUE]

PublicListings ==
    UNION { InjectiveSeqs({NetworkPrivate, NetworkMyPublic, NetworkPublic431,
                           NetworkPublic16, NetworkPublic167, NetworkX}, n) :
            n \in 0..MaxNetworks }

InitPublic ==
    /\ now = 0
    /\ SessionWith(CatalogFull)
    /\ routers = <<ExternalRouter>>
    /\ subnets = <<SubnetA, SubnetB>>
    /\ networks \in PublicListings
    /\ answers = Plain
    /\ identity = {BodyFull}
    /\ ports = [p \in {"p1"} |-> Port("S1", "netA", <<FixedIp("10.0.0.9")>>)]
    /\ floatingips = <<>>
    /\ sent = <<>>
    /\ ClientIdle /\ CallersIdle /\ BotIdle

PublicGetNetworks ==
    \E x \in get_public_networks(World, now) : Invoked("get_public_networks", x, TRUE)
PublicGetNetworkId ==
    \E x \in get_public_network_id(World, now) :
        Invoked("get_public_network_id", x, ~IsNone(x.r))
\* allocate_floating_ip(): the network is not given
PublicAllocate ==
    \E x \in allocate_floating_ip(World, now, None) :
        Invoked("allocate_floating_ip", x, ~IsNone(x.r))

NextPublic == PublicGetNetworks \/ PublicGetNetworkId \/ PublicAllocate

SpecPublic == InitPublic /\ [][NextPublic]_vars

\* the listing of the networks was answered
NetworksListed ==
    \E i \in DOMAIN sent : sent[i].res = "networks" /\ sent[i].status = 200

\* the names of the model in which 'public' is written, in capitals or not
NamesWithPublic == {"my-PUBLIC", "Public-431", "public-16", "public-167"}

\* the networks of the project that are external or named public, as listed
PublicOnes ==
    SelectSeq(networks, LAMBDA n : n.external \/ n.name \in NamesWithPublic)

\* C27: get_public_networks() returns the listed networks that are flagged external
\* or have 'public' in their name in any case, in the order of the listing, and the
\* empty sequence when the listing fails
C27_PublicNetworks ==
    call.op = "get_public_networks" =>
        ret.raw = IF NetworksListed THEN PublicOnes ELSE <<>>

\* C27's case: a private network, one named in capitals and an external one whose
\* name does not say so
C27_Witness ==
    /\ call.op = "get_public_networks"
    /\ networks = <<NetworkPrivate, NetworkMyPublic, NetworkX>>
    /\ ret.raw = <<NetworkMyPublic, NetworkX>>

\* the names of the model that contain 'public-167' or 'public-431', in any case
NamesPreferred == {"Public-431", "public-167"}

\* the network the allocation should go to: the first public one with a preferred
\* name, else the first public one, else none
ExpectedNetwork ==
    IF ~NetworksListed \/ PublicOnes = <<>> THEN None
    ELSE IF \E k \in DOMAIN PublicOnes : PublicOnes[k].name \in NamesPreferred
         THEN Some(PublicOnes[Least({ k \in DOMAIN PublicOnes :
                                         PublicOnes[k].name \in NamesPreferred })].id)
    ELSE Some(PublicOnes[1].id)

AllocationPosts ==
    { i \in DOMAIN sent : sent[i].method = "POST" /\ sent[i].res = "floatingips" }

\* C28: get_public_network_id() returns the first public network with a preferred
\* name, else the first public network, else nothing; allocate_floating_ip() without
\* a network sends one allocation request for that network, and none without one
C28_PreferredPublicNetwork ==
    /\ call.op = "get_public_network_id" => ret.raw = ExpectedNetwork
    /\ call.op = "allocate_floating_ip" =>
          IF IsNone(ExpectedNetwork) THEN AllocationPosts = {}
          ELSE /\ Cardinality(AllocationPosts) = 1
               /\ \A i \in AllocationPosts : sent[i].body = <<Val(ExpectedNetwork)>>

\* C28's case: the preferred network is listed behind another public network, and
\* the allocation goes to it
C28_Witness ==
    /\ call.op = "allocate_floating_ip"
    /\ networks = <<NetworkMyPublic, NetworkPublic431>>
    /\ ret.ok
    /\ \E i \in AllocationPosts : sent[i].body = <<"n3">>

---------------------------------------------------------------------------
(* SpecBlocking: an operation of the client step by step: each requests.get,  *)
(* requests.post or requests.put is called without timeout=, so the call      *)
(* returns when the service answers or the connection fails, and not before.  *)
(* The client's own steps are taken whenever they can be; an answer comes     *)
(* when the service sends one.                                               *)

BlockingOps ==
    {"authenticate", "get_servers", "get_floating_ips", "delete_floating_ip",
     "add_fixed_ip_to_interface"}

\* the outcomes of an operation, with whether it succeeded
Operation(op, w, t) ==
    CASE op = "authenticate" ->
           { [w |-> x.w, ok |-> x.ok] : x \in authenticate(w, t) }
      [] op = "get_servers" ->
           { [w |-> x.w, ok |-> x.r.ok] : x \in get_servers(w, t) }
      [] op = "get_floating_ips" ->
           { [w |-> x.w, ok |-> x.r.ok] : x \in get_floating_ips(w, t) }
      [] op = "delete_floating_ip" ->
           { [w |-> x.w, ok |-> x.r] : x \in delete_floating_ip(w, t, "F2") }
      [] op = "add_fixed_ip_to_interface" ->
           { [w |-> x.w, ok |-> x.r] : x \in add_fixed_ip_to_interface(w, t, "p1", "subB") }

\* a request that has left and has no answer yet
Pending(request) == [request EXCEPT !.status = NoAnswer, !.reply = None]

\* the requests of an outcome up to its k-th, that one waiting for its answer
WaitingAt(x, k) == SubSeq(x.w.sent, 1, k - 1) \o << Pending(x.w.sent[k]) >>

\* the operation is inside a call of requests
InFlight == call.op # "none" /\ ret = <<>>

InitBlocking ==
    /\ now = 0
    /\ SessionWith(CatalogFull)
    /\ routers = <<ExternalRouter>>
    /\ subnets = <<SubnetA, SubnetB>>
    /\ networks = <<NetworkA, NetworkB, NetworkX>>
    /\ answers = AnyStatus
    /\ identity = {BodyFull}
    /\ ports = [p \in {"p1"} |-> Port("S1", "netA", <<FixedIp("10.0.0.9")>>)]
    /\ floatingips = [f \in FipIds |-> [port_id |-> None]]
    /\ sent = <<>>
    /\ ClientIdle /\ CallersIdle /\ BotIdle

\* the operation goes on to its k-th request, or returns when it has no more
Proceeds(op, at, x, k) ==
    /\ call' = [op |-> op, args |-> <<>>, before |-> <<>>, at |-> at]
    /\ IF Len(x.w.sent) < k
       THEN /\ Commit(x.w)
            /\ ret' = [ok |-> x.ok]
       ELSE /\ sent' = WaitingAt(x, k)
            /\ ret' = <<>>
            /\ UNCHANGED <<sessionVars, ports, floatingips, networks, subnets>>
    /\ UNCHANGED <<now, routers, answers, identity, callerVars, botVars>>

\* a handler calls the operation, which runs up to its first request
BlockingCall(op) ==
    /\ ~InFlight
    /\ \E x \in Operation(op, World, now) : Proceeds(op, now, x, 1)

\* the answer to the request in flight, or the failure of its connection, arrives
BlockingAnswer ==
    /\ InFlight
    /\ \E x \in Operation(call.op, World, call.at) :
          /\ Len(x.w.sent) >= Len(sent)
          /\ WaitingAt(x, Len(sent)) = sent
          /\ Proceeds(call.op, call.at, x, Len(sent) + 1)

BlockingTick ==
    /\ now < MaxTime
    /\ now' = now + 1
    /\ UNCHANGED <<sessionVars, remoteVars, sent, clientVars, callerVars, botVars>>

NextBlocking ==
    \/ \E op \in BlockingOps : BlockingCall(op)
    \/ BlockingAnswer
    \/ BlockingTick

SpecBlocking ==
    /\ InitBlocking /\ [][NextBlocking]_vars
    /\ WF_vars(\E op \in BlockingOps : BlockingCall(op))
    /\ WF_vars(BlockingTick)

\* C29: an operation that is inside a call of requests eventually returns, whether
\* or not the service answers
C29_EveryCallReturns == InFlight ~> ~InFlight


---------------------------------------------------------------------------
(* SpecChat: main(), the two commands and the buttons of the messages of a chat *)

\* AUTHORIZED_USERS = [YourTelID]
AUTHORIZED_USERS == {"YourTelID"}
Users == AUTHORIZED_USERS \cup {"stranger"}

\* A variant that lets every user in
is_authorized_mut(user_id) == TRUE

is_authorized(user_id) == user_id \in AUTHORIZED_USERS

\* what a handler leaves behind: the client's world, the user's data, the last
\* prompt, the kind of message and the buttons under it
Renders(w, ud, pr, screen_, keyboard) ==
    [w |-> w, ud |-> ud, prompted |-> pr, screen |-> screen_, keyboard |-> keyboard]

\* the rows of the main menu
MainMenu ==
    { <<"list_servers">>, <<"list_networks">>, <<"list_floating_ips">>,
      <<"add_floating_ip">>, <<"manage_fixed_ips">>, <<"create_network">>, <<"help">> }

\* callback data is 'name' or 'name|argument': a tuple of the name and the argument
\* button_handler cuts out after the prefix
Name(callback_data) == Head(callback_data)
Argument(callback_data) == callback_data[2]

\* /start: context.user_data.clear() and the main menu in a new message
start(w, user_id, ud, pr) ==
    IF ~is_authorized(user_id) THEN Renders(w, ud, pr, "not_authorized", {})
    ELSE Renders(w, EmptyDict, pr, "main_menu", MainMenu)

back_to_main(w, ud, pr) == Renders(w, ud, pr, "main_menu", MainMenu)

\* the connection test of status and of main(): authenticate(), then the public
\* networks and the networks behind an external gateway
TestConnection(w, t) ==
    UNION { IF ~a.ok THEN { [w |-> a.w, ok |-> FALSE] }
            ELSE UNION { { [w |-> e.w, ok |-> TRUE] :
                           e \in find_networks_with_external_gateway(p.w, t) } :
                         p \in get_public_networks(a.w, t) } :
            a \in authenticate(w, t) }

\* /status
status(w, t, user_id, ud, pr) ==
    IF ~is_authorized(user_id) THEN { Renders(w, ud, pr, "not_authorized", {}) }
    ELSE { Renders(c.w, ud, pr, IF c.ok THEN "status_connected" ELSE "status_failed", {}) :
           c \in TestConnection(w, t) }

\* two rows per floating IP: 'disassociate_ip|id' when it has a fixed address and
\* 'associate_floating_ip' when it has none, and 'delete_ip|id'
FloatingIpButtons(floating_ips) ==
    UNION { { <<"delete_ip", floating_ips[i].id>> }
            \cup (IF IsNone(floating_ips[i].port_id) THEN { <<"associate_floating_ip">> }
                  ELSE { <<"disassociate_ip", floating_ips[i].id>> }) :
            i \in DOMAIN floating_ips }
    \cup { <<"allocate_floating_ip">>, <<"back_to_main">> }

list_floating_ips(w, t, ud, pr) ==
    { IF ~f.r.ok THEN Renders(f.w, ud, pr, "floating_ips_failed", { <<"back_to_main">> })
      ELSE IF f.r.val = <<>>
           THEN Renders(f.w, ud, pr, "no_floating_ips",
                        { <<"allocate_floating_ip">>, <<"back_to_main">> })
      ELSE Renders(f.w, ud, pr, "floating_ips", FloatingIpButtons(f.r.val)) :
      f \in get_floating_ips(w, t) }

\* confirm_disassociate_ip and confirm_delete_ip: the floating IP is looked up in a
\* fresh listing, and its address is shown over 'confirm_...|id' and 'cancel_operation'
ConfirmFloatingIp(w, t, ud, pr, ip_id, screen_, confirm) ==
    { IF ~f.r.ok THEN Renders(f.w, ud, pr, "floating_ips_failed", {})
      ELSE IF IsNone(FindById(f.r.val, ip_id))
           THEN Renders(f.w, ud, pr, "floating_ip_not_found", {})
      ELSE Renders(f.w, ud,
                   Some([floating_ip_address |-> Val(FindById(f.r.val, ip_id)).floating_ip_address]),
                   screen_, { <<confirm, ip_id>>, <<"cancel_operation">> }) :
      f \in get_floating_ips(w, t) }

confirm_disassociate_ip(w, t, ud, pr, ip_id) ==
    ConfirmFloatingIp(w, t, ud, pr, ip_id, "confirm_disassociate", "confirm_disassociate")

confirm_delete_ip(w, t, ud, pr, ip_id) ==
    ConfirmFloatingIp(w, t, ud, pr, ip_id, "confirm_delete", "confirm_delete")

BackToFloatingIps == { <<"list_floating_ips">>, <<"back_to_main">> }

do_disassociate_ip(w, t, ud, pr, ip_id) ==
    { IF IsNone(x.r) THEN Renders(x.w, ud, pr, "disassociate_failed", {})
      ELSE Renders(x.w, ud, pr, "disassociated", BackToFloatingIps) :
      x \in disassociate_floating_ip(w, t, ip_id) }

do_delete_ip(w, t, ud, pr, ip_id) ==
    { IF ~x.r THEN Renders(x.w, ud, pr, "delete_failed", {})
      ELSE Renders(x.w, ud, pr, "deleted", BackToFloatingIps) :
      x \in delete_floating_ip(w, t, ip_id) }

\* the buttons manage_fixed_ips and manage_server_fixed_ips put under what they show
FixedIpButtons(x) ==
    CASE x.screen = "select_server_for_fixed_ip" ->
           { <<"select_server_for_fixed_ip", k>> : k \in DOMAIN x.ud["server_map"] }
           \cup { <<"back_to_main">> }
      [] x.screen = "server_fixed_ips" ->
           { <<"remove_fixed_ip", Index(i)>> : i \in DOMAIN x.ud["fixed_ips"] }
           \cup { <<"add_fixed_ip", x.ud["current_server_index"]>>,
                  <<"manage_fixed_ips">>, <<"back_to_main">> }
      [] OTHER -> {}

\* confirm_remove_fixed_ip: no prompt without the current server among the stored
\* servers; the prompt stores confirm_remove_ip once more
confirm_remove_fixed_ip(w, ud, pr, ip_data) ==
    IF ~Has(ud, "current_server_id") THEN Renders(w, ud, pr, "server_not_found", {})
    ELSE IF IsNone(FindById(LookupList(ud, "servers"), ud["current_server_id"]))
         THEN Renders(w, ud, pr, "server_details_failed", {})
    ELSE Renders(w, Put(ud, "confirm_remove_ip", ip_data),
                 Some([ip_address |-> ip_data.ip_address, port_id |-> ip_data.port_id,
                       name |-> Val(FindById(LookupList(ud, "servers"),
                                             ud["current_server_id"])).name]),
                 "confirm_remove_fixed_ip",
                 { <<"confirm_remove_fixed_ip", ip_data.ip_address>>,
                   <<"select_server_for_fixed_ip", ud["current_server_index"]>> })

\* the 'remove_fixed_ip|i' branch of button_handler: the entry of fixed_ips at i is
\* stored as confirm_remove_ip before confirm_remove_fixed_ip runs
remove_fixed_ip(w, ud, pr, ip_index) ==
    IF IntOf(ip_index) + 1 \notin DOMAIN LookupList(ud, "fixed_ips")
    THEN Renders(w, ud, pr, "invalid_ip_selection", {})
    ELSE confirm_remove_fixed_ip(w,
             Put(ud, "confirm_remove_ip", ud["fixed_ips"][IntOf(ip_index) + 1]),
             pr, ud["fixed_ips"][IntOf(ip_index) + 1])

\* do_remove_fixed_ip: what is removed is confirm_remove_ip of the user's data; the
\* argument of the button is not read
do_remove_fixed_ip(w, t, ud, pr, ip_index) ==
    IF ~Has(ud, "confirm_remove_ip") \/ ~Has(ud, "current_server_id")
    THEN { Renders(w, ud, pr, "invalid_operation", {}) }
    ELSE { IF ~x.r THEN Renders(x.w, ud, pr, "remove_fixed_ip_failed", {})
           ELSE Renders(x.w, ud, pr, "fixed_ip_removed",
                        { <<"select_server_for_fixed_ip", LookupList(ud, "current_server_index")>>,
                          <<"manage_fixed_ips">> }) :
           x \in remove_fixed_ip_from_interface(w, t, ud["confirm_remove_ip"].port_id,
                                                ud["confirm_remove_ip"].ip_address) }

\* list_servers(query, context): stores the servers it got under 'servers' and
\* leaves user_data['server_map'] as it was
list_servers(w, t, ud, pr) ==
    { IF ~servers.r.ok THEN Shows(servers.w, Del(ud, "servers"), pr, "servers_failed")
      ELSE Shows(servers.w,
                 Put(Del(ud, "servers"), "servers", servers.r.val),
                 pr,
                 IF servers.r.val = <<>> THEN "no_servers" ELSE "servers") :
      servers \in get_servers(w, t) }

\* for idx, srv_id in server_map.items(): if srv_id == server_id: break
IndexOfServer(server_map, server_id) ==
    LET hits == { k \in DOMAIN server_map : server_map[k] = server_id }
    IN IF hits = {} THEN None
       ELSE Some(CHOOSE k \in hits : \A j \in hits : IntOf(k) <= IntOf(j))

\* the part of show_server_details that registers the server: user_data after it
Registered(ud, server) ==
    LET ud1 == Put(ud, "detail_server", server)
        ud2 == IF Has(ud1, "server_map") THEN ud1 ELSE Put(ud1, "server_map", EmptyDict)
        servers == LookupList(ud2, "servers")
    IN IF ~IsNone(IndexOfServer(ud2["server_map"], server.id)) THEN ud2
       ELSE IF servers = <<>>
            THEN Put(Put(ud2, "servers", <<server>>), "server_map", IndexMap(<<server>>))
            ELSE Put(ud2, "server_map",
                     Put(ud2["server_map"], Index(Len(servers)), server.id))

\* show_server_details(query, context, server_id)
show_server_details(w, t, ud, pr, server_id) ==
    { IF ~server.r.ok THEN Shows(server.w, ud, pr, "server_details_failed")
      ELSE Shows(server.w, Registered(ud, server.r.val), pr, "server_details") :
      server \in get_server_details(w, t, server_id) }

\* create_network_menu: what would be made, over 'confirm_create_network' and
\* 'back_to_main'
create_network_menu(w, ud, pr) ==
    Renders(w, ud, pr, "create_network_menu",
            { <<"confirm_create_network">>, <<"back_to_main">> })

add_floating_ip_menu(w, ud, pr) ==
    Renders(w, ud, pr, "floating_ip_menu",
            { <<"allocate_floating_ip">>, <<"associate_floating_ip">>, <<"back_to_main">> })

show_help(w, ud, pr) == Renders(w, ud, pr, "help", { <<"back_to_main">> })

\* list_networks(query): 'if not networks' takes an empty listing for a failure
list_networks(w, t, ud, pr) ==
    { IF Falsy(n.r) THEN Renders(n.w, ud, pr, "networks_failed", {})
      ELSE Renders(n.w, ud, pr, "networks", { <<"back_to_main">> }) :
      n \in get_networks(w, t) }

\* the handler allocate_floating_ip(query), which has the name of the client's
\* operation: get_public_network_id(), then allocate_floating_ip(public_network_id)
allocate_floating_ip_query(w, t, ud, pr) ==
    UNION { IF IsNone(n.r) THEN { Renders(n.w, ud, pr, "no_public_network", {}) }
            ELSE { IF IsNone(a.r) THEN Renders(a.w, ud, pr, "allocate_failed", {})
                   ELSE Renders(a.w, ud, pr, "allocated",
                                { <<"associate_floating_ip">>, <<"list_floating_ips">> }) :
                   a \in allocate_floating_ip(n.w, t, n.r) } :
            n \in get_public_network_id(w, t) }

\* the buttons the handlers of the server list, of the associate-floating-IP and of
\* the add-fixed-IP conversation put under what they show; argument is the one the
\* handler was called with. A message edited without reply_markup has no button
Buttons(x, argument) ==
    CASE x.screen = "servers" ->
           { <<"server", x.ud["servers"][i].id>> : i \in DOMAIN x.ud["servers"] }
           \cup { <<"back_to_main">> }
      [] x.screen = "server_details" ->
           { <<"select_server",
               Val(IndexOfServer(x.ud["server_map"], x.ud["detail_server"].id))>>,
             <<"select_server_for_fixed_ip",
               Val(IndexOfServer(x.ud["server_map"], x.ud["detail_server"].id))>>,
             <<"back_to_servers">> }
      [] x.screen = "select_server" ->
           { <<"select_server", k>> : k \in DOMAIN x.ud["server_map"] }
           \cup { <<"back_to_floating_ips">> }
      [] x.screen = "no_available_ips" ->
           { <<"allocate_floating_ip">>, <<"back_to_floating_ips">> }
      [] x.screen = "select_ip" ->
           { <<"select_ip", k>> : k \in DOMAIN x.ud["ip_map"] }
           \cup { <<"back_to_floating_ips">> }
      [] x.screen = "confirm_associate" ->
           { <<"confirm_associate", argument>>, <<"cancel_operation">> }
      [] x.screen = "associated" -> BackToFloatingIps
      [] x.screen = "select_interface" ->
           { <<"select_interface", Index(i)>> : i \in DOMAIN x.ud["server_interfaces"] }
           \cup { <<"select_server_for_fixed_ip", argument>> }
      [] x.screen = "select_network" ->
           { <<"select_network", k>> : k \in DOMAIN x.ud["subnet_map"] }
           \cup { <<"select_server_for_fixed_ip",
                    IF Has(x.ud, "current_server_index") THEN x.ud["current_server_index"]
                    ELSE "0">> }
      [] x.screen = "confirm_add_fixed_ip" ->
           { <<"confirm_add_fixed_ip", argument>>,
             <<"select_server_for_fixed_ip", x.ud["current_server_index"]>> }
      [] x.screen = "fixed_ip_added" ->
           { <<"select_server_for_fixed_ip", x.ud["current_server_index"]>>,
             <<"manage_fixed_ips">> }
      [] OTHER -> FixedIpButtons(x)

Keyed(outcomes, argument) ==
    { Renders(x.w, x.ud, x.prompted, x.screen, Buttons(x, argument)) : x \in outcomes }

\* the callback data button_handler compares with '==' and the prefixes, up to the
\* bar, it tests with startswith
ExactBranches ==
    { "list_servers", "list_networks", "list_floating_ips", "add_floating_ip",
      "allocate_floating_ip", "associate_floating_ip", "create_network",
      "manage_fixed_ips", "help", "back_to_main", "back_to_servers",
      "back_to_floating_ips", "back_to_fixed_ips", "cancel_operation" }
PrefixBranches ==
    { "select_server", "select_ip", "confirm_associate", "disassociate_ip",
      "confirm_disassociate", "delete_ip", "confirm_delete",
      "select_server_for_fixed_ip", "add_fixed_ip", "select_interface",
      "select_network", "confirm_add_fixed_ip", "remove_fixed_ip",
      "confirm_remove_fixed_ip", "server", "list_servers_page" }

\* the branch of button_handler's if/elif chain that takes the callback data;
\* "unknown" is the else
Branch(callback_data) ==
    IF \/ Len(callback_data) = 1 /\ Name(callback_data) \in ExactBranches
       \/ Len(callback_data) = 2 /\ Name(callback_data) \in PrefixBranches
    THEN Name(callback_data)
    ELSE "unknown"

\* button_handler: the authorization check, then the branch. The servers of the
\* model fit one page of list_servers, which takes every page number for page 0.
\* The else shows "Invalid operation" for two seconds and then the main menu
button_handler(w, t, user_id, ud, pr, callback_data) ==
    IF ~is_authorized(user_id) THEN { Renders(w, ud, pr, "not_authorized", {}) }
    ELSE CASE Branch(callback_data) \in {"list_servers", "list_servers_page",
                                         "back_to_servers"} ->
                Keyed(list_servers(w, t, ud, pr), "")
           [] Branch(callback_data) = "list_networks" -> list_networks(w, t, ud, pr)
           [] Branch(callback_data) \in {"list_floating_ips", "back_to_floating_ips"} ->
                list_floating_ips(w, t, ud, pr)
           [] Branch(callback_data) = "add_floating_ip" ->
                { add_floating_ip_menu(w, ud, pr) }
           [] Branch(callback_data) = "allocate_floating_ip" ->
                allocate_floating_ip_query(w, t, ud, pr)
           [] Branch(callback_data) = "associate_floating_ip" ->
                Keyed(select_server_for_ip(w, t, ud, pr), "")
           [] Branch(callback_data) = "create_network" ->
                { create_network_menu(w, ud, pr) }
           [] Branch(callback_data) = "select_server" ->
                Keyed(select_floating_ip(w, t, ud, pr, Argument(callback_data)),
                      Argument(callback_data))
           [] Branch(callback_data) = "select_ip" ->
                Keyed(confirm_associate_ip(w, t, ud, pr, Argument(callback_data)),
                      Argument(callback_data))
           [] Branch(callback_data) = "confirm_associate" ->
                Keyed(do_associate_ip(w, t, ud, pr, Argument(callback_data)),
                      Argument(callback_data))
           [] Branch(callback_data) = "disassociate_ip" ->
                confirm_disassociate_ip(w, t, ud, pr, Argument(callback_data))
           [] Branch(callback_data) = "confirm_disassociate" ->
                do_disassociate_ip(w, t, ud, pr, Argument(callback_data))
           [] Branch(callback_data) = "delete_ip" ->
                confirm_delete_ip(w, t, ud, pr, Argument(callback_data))
           [] Branch(callback_data) = "confirm_delete" ->
                do_delete_ip(w, t, ud, pr, Argument(callback_data))
           [] Branch(callback_data) \in {"manage_fixed_ips", "back_to_fixed_ips"} ->
                Keyed(manage_fixed_ips(w, t, ud, pr), "")
           [] Branch(callback_data) = "select_server_for_fixed_ip" ->
                Keyed(manage_server_fixed_ips(w, t, ud, pr, Argument(callback_data)),
                      Argument(callback_data))
           [] Branch(callback_data) = "add_fixed_ip" ->
                Keyed(select_interface_for_fixed_ip(w, t, ud, pr, Argument(callback_data)),
                      Argument(callback_data))
           [] Branch(callback_data) = "select_interface" ->
                Keyed(select_network_for_fixed_ip(w, t, ud, pr, Argument(callback_data)),
                      Argument(callback_data))
           [] Branch(callback_data) = "select_network" ->
                Keyed(confirm_add_fixed_ip(w, t, ud, pr, Argument(callback_data)),
                      Argument(callback_data))
           [] Branch(callback_data) = "confirm_add_fixed_ip" ->
                Keyed(do_add_fixed_ip(w, t, ud, pr, Argument(callback_data)),
                      Argument(callback_data))
           [] Branch(callback_data) = "remove_fixed_ip" ->
                { remove_fixed_ip(w, ud, pr, Argument(callback_data)) }
           [] Branch(callback_data) = "confirm_remove_fixed_ip" ->
                do_remove_fixed_ip(w, t, ud, pr, Argument(callback_data))
           [] Branch(callback_data) = "help" -> { show_help(w, ud, pr) }
           [] Branch(callback_data) = "server" ->
                Keyed(show_server_details(w, t, ud, pr, Argument(callback_data)),
                      Argument(callback_data))
           [] Branch(callback_data) \in {"back_to_main", "cancel_operation", "unknown"} ->
                { back_to_main(w, ud, pr) }

StatusNoContent == 204
MaxMessages == 2  \* messages of the chat whose buttons can still be pressed
Messages == 1..MaxMessages

\* the values TELEGRAM_BOT_TOKEN can have in the environment: unset, empty, set
BotTokens == { None, Some(""), Some("123:abc") }

\* A variant that takes the empty string for a token
NotSet_mut(bot_token) == IsNone(bot_token)

\* not bot_token
NotSet(bot_token) == IsNone(bot_token) \/ Val(bot_token) = ""

\* the user's own context.user_data
DataOf(user_id) == IF is_authorized(user_id) THEN user_data ELSE stranger_data

\* an update was handled for the user: what the handler sent, stored and rendered
Rendered(user_id, event, x) ==
    /\ Commit(x.w)
    /\ IF is_authorized(user_id)
       THEN user_data' = x.ud /\ UNCHANGED stranger_data
       ELSE stranger_data' = x.ud /\ UNCHANGED user_data
    /\ prompted' = x.prompted
    /\ screen' = x.screen
    /\ call' = [op |-> Name(event), args |-> Tail(event), before |-> <<>>,
                user_id |-> user_id]
    /\ ret' = <<>>
    /\ UNCHANGED <<now, routers, answers, identity, callerVars, application>>

\* an update reaches a handler only while the application polls and has the handler
Dispatches(handler) ==
    application.state = "polling" /\ handler \in application.handlers

\* the bot polls with a session that lasts; a server with two fixed IPs on its
\* port, one floating IP on that port and one free; no message has buttons yet; the
\* services answer 200 or 204, so that every operation can succeed and can fail
InitChat ==
    /\ now = 0
    /\ token = Some("tok1")
    /\ token_expires = Some(now + LongLife)
    /\ service_catalog = StoreCatalog(EmptyDict, CatalogFull)
    /\ routers = <<ExternalRouter>>
    /\ subnets = <<SubnetA, SubnetB>>
    /\ networks = <<NetworkA, NetworkX>>
    /\ answers = {200, StatusNoContent}
    /\ identity = {BodyFull}
    /\ ports = [p \in {"p1"} |->
                   Port("S1", "netA", <<FixedIp("10.0.0.9"), FixedIp("10.0.0.10")>>)]
    /\ floatingips = [f \in FipIds |-> [port_id |-> IF f = "F1" THEN Some("p1") ELSE None]]
    /\ sent = <<>>
    /\ ClientIdle /\ CallersIdle
    /\ user_data = EmptyDict
    /\ stranger_data = EmptyDict
    /\ prompted = None
    /\ screen = "none"
    /\ keyboards = [m \in Messages |-> {}]
    /\ application = Polling

\* /start from the authorized user: the main menu in a new message
ChatStart ==
    /\ Dispatches("start")
    /\ \E user_id \in AUTHORIZED_USERS, m \in Messages :
         \E x \in { start(World, user_id, DataOf(user_id), prompted) } :
           /\ Rendered(user_id, <<"start">>, x)
           /\ keyboards' = [keyboards EXCEPT ![m] = x.keyboard]

\* the buttons the user of SpecChat presses: those of the floating IP list and of
\* the fixed IPs of a server
ChatButtons ==
    { "list_floating_ips", "disassociate_ip", "confirm_disassociate", "delete_ip",
      "confirm_delete", "manage_fixed_ips", "select_server_for_fixed_ip",
      "remove_fixed_ip", "confirm_remove_fixed_ip", "back_to_main", "cancel_operation" }

\* the authorized user presses a button of a message; the handler edits that message
ChatPress ==
    /\ Dispatches("button_handler")
    /\ \E user_id \in AUTHORIZED_USERS, m \in Messages :
         \E callback_data \in { b \in keyboards[m] : Name(b) \in ChatButtons } :
           \E x \in button_handler(World, now, user_id, DataOf(user_id), prompted,
                                   callback_data) :
             /\ Rendered(user_id, callback_data, x)
             /\ keyboards' = [keyboards EXCEPT ![m] = x.keyboard]

NextChat == ChatStart \/ ChatPress

SpecChat == InitChat /\ [][NextChat]_vars

\* the requests of the last event that destroy something
FloatingIpDeletes ==
    { i \in DOMAIN sent : sent[i].method = "DELETE" /\ sent[i].res = "floatingips" }
Disassociations ==
    { i \in DOMAIN sent : sent[i].method = "PUT" /\ sent[i].res = "floatingips" }
PortPuts ==
    { i \in DOMAIN sent : sent[i].method = "PUT" /\ sent[i].res = "ports" }

\* the addresses the port's list held in the answer to the GET and the PUT leaves out
RemovedBy(i) ==
    { Val(sent[i - 1].reply)[k].ip_address : k \in DOMAIN Val(sent[i - 1].reply) }
    \ { sent[i].body[k].ip_address : k \in DOMAIN sent[i].body }

\* the event was a press of the confirm button that names the resource
Confirmed(op, resource) == call.op = op /\ call.args = <<resource>>

\* C22: a floating IP is deleted or disassociated, and a fixed IP is removed, only in
\* the event of pressing the confirm button of the prompt shown for that very
\* floating IP or address
C22_ConfirmationPrecedesDestruction ==
    /\ \A i \in FloatingIpDeletes : Confirmed("confirm_delete", sent[i].id)
    /\ \A i \in Disassociations : Confirmed("confirm_disassociate", sent[i].id)
    /\ \A i \in PortPuts :
         \A ip_address \in RemovedBy(i) : Confirmed("confirm_remove_fixed_ip", ip_address)

---------------------------------------------------------------------------
(* SpecAccess: main(), then commands and button presses from any user *)

\* the process starts with one of the values of TELEGRAM_BOT_TOKEN and no session;
\* the services answer 200 or 500, or 200 or not at all
InitAccess ==
    /\ now = 0
    /\ NoSession
    /\ routers = <<ExternalRouter>>
    /\ subnets = <<SubnetA, SubnetB>>
    /\ networks = <<NetworkA, NetworkX>>
    /\ answers \in {Plain, {200, NoAnswer}}
    /\ identity = {BodyFull}
    /\ ports = [p \in {"p1"} |-> Port("S1", "netA", <<FixedIp("10.0.0.9")>>)]
    /\ floatingips = [f \in FipIds |-> [port_id |-> None]]
    /\ sent = <<>>
    /\ ClientIdle /\ CallersIdle
    /\ user_data = EmptyDict
    /\ stranger_data = EmptyDict
    /\ prompted = None
    /\ screen = "none"
    /\ keyboards = <<>>
    /\ \E bot_token \in BotTokens :
         application = [bot_token |-> bot_token, handlers |-> {}, state |-> "starting"]

\* main(): returns at once without a bot token; otherwise adds the three handlers,
\* tests the connection and polls
Main ==
    /\ application.state = "starting"
    /\ IF NotSet(application.bot_token)
       THEN /\ application' = [application EXCEPT !.state = "returned"]
            /\ UNCHANGED <<now, sessionVars, remoteVars, sent, clientVars, callerVars,
                           user_data, stranger_data, prompted, screen, keyboards>>
       ELSE \E c \in TestConnection(World, now) :
              /\ Commit(c.w)
              /\ application' = [application EXCEPT !.handlers = Handlers,
                                                    !.state = "polling"]
              /\ call' = [op |-> "main", args |-> <<>>, before |-> <<>>,
                          user_id |-> "none"]
              /\ ret' = <<>>
              /\ UNCHANGED <<now, routers, answers, identity, callerVars, user_data,
                             stranger_data, prompted, screen, keyboards>>

\* the callback data of buttons on messages of this and of earlier runs of the bot
AccessButtons ==
    { <<"list_floating_ips">>, <<"delete_ip", "F2">>, <<"confirm_delete", "F2">>,
      <<"manage_fixed_ips">>, <<"back_to_main">> }

AccessStart ==
    /\ Dispatches("start")
    /\ \E user_id \in Users :
         \E x \in { start(World, user_id, DataOf(user_id), prompted) } :
           /\ Rendered(user_id, <<"start">>, x)
           /\ UNCHANGED keyboards

AccessStatus ==
    /\ Dispatches("status")
    /\ \E user_id \in Users :
         \E x \in status(World, now, user_id, DataOf(user_id), prompted) :
           /\ Rendered(user_id, <<"status">>, x)
           /\ UNCHANGED keyboards

AccessPress ==
    /\ Dispatches("button_handler")
    /\ \E user_id \in Users, callback_data \in AccessButtons :
         \E x \in button_handler(World, now, user_id, DataOf(user_id), prompted,
                                 callback_data) :
           /\ Rendered(user_id, callback_data, x)
           /\ UNCHANGED keyboards

NextAccess == Main \/ AccessStart \/ AccessStatus \/ AccessPress

SpecAccess == InitAccess /\ [][NextAccess]_vars

\* the last update came from a user outside the allow-list
FromStranger(c) ==
    /\ "user_id" \in DOMAIN c
    /\ c.user_id \in Users \ AUTHORIZED_USERS

\* C24: a command or a button press of a user who is not in AUTHORIZED_USERS sends no
\* request and leaves the session, the remote resources and both users' data as
\* they were
C24_UnauthorizedNoCall ==
    [][FromStranger(call') =>
         /\ sent' = <<>>
         /\ UNCHANGED <<sessionVars, remoteVars, user_data, stranger_data>>]_vars

\* a stranger pressed the confirm button of a deletion while the owner had a session
\* and stored servers, and the floating IP is still there
C24_Witness ==
    /\ FromStranger(call)
    /\ call.op = "confirm_delete"
    /\ token # None
    /\ Has(user_data, "servers")
    /\ "F2" \in DOMAIN floatingips

\* C30: with TELEGRAM_BOT_TOKEN unset or empty, main() adds no handler, sends no
\* request, builds no session, never polls, and so no update is ever handled
C30_NoTokenNoStart ==
    application.bot_token \in {None, Some("")} =>
        /\ application.state \in {"starting", "returned"}
        /\ application.handlers = {}
        /\ sent = <<>>
        /\ NoSession
        /\ call = NoCall

\* main() returned for want of a token
C30_Witness ==
    /\ application.state = "returned"
    /\ application.bot_token = None

\* the authentication requests of the last step, and those that got a 201
AuthPostsOf(requests) ==
    { i \in DOMAIN requests : requests[i].svc = "identity" /\ requests[i].method = "POST" }
Accepted(requests) ==
    { i \in AuthPostsOf(requests) : requests[i].status = StatusCreated }

\* C39: a step in which authenticate() was called and got no 201 (another status, or
\* no response at all) leaves token, token_expires and service_catalog as they were
C39_RejectedKeepsSession ==
    [][(AuthPostsOf(sent') # {} /\ Accepted(sent') = {}) => UNCHANGED sessionVars]_vars

\* /status re-authenticated explicitly, got no response, and the cached token is
\* still there and still valid
C39_Witness ==
    /\ call.op = "status"
    /\ Len(sent) = 1
    /\ sent[1].status = NoAnswer
    /\ is_token_valid(World, now)

---------------------------------------------------------------------------
(* SpecToken: the calls of SpecRefresh against an identity service whose 201 *)
(* response may come without the X-Subject-Token header                     *)

InitToken ==
    /\ now = 0
    /\ NoSession
    /\ routers = <<ExternalRouter>>
    /\ subnets = <<SubnetA, SubnetB>>
    /\ networks = <<NetworkA, NetworkB, NetworkX>>
    /\ answers = Plain
    /\ identity = {BodyFull, BodyNetwork, BodyNoSubjectToken}
    /\ ports = [p \in {"p1"} |-> Port("S1", "netA", <<FixedIp("10.0.0.9")>>)]
    /\ floatingips = [f \in FipIds |-> [port_id |-> None]]
    /\ sent = <<>>
    /\ ClientIdle /\ CallersIdle /\ BotIdle

SpecToken == InitToken /\ [][NextRefresh]_vars

\* C38: after authenticate() returned True the session holds a token and an expiry,
\* and the headers get_headers() returns carry a token
C38_SuccessMeansToken ==
    /\ (call.op = "authenticate" /\ ret # None) => (token # None /\ token_expires # None)
    /\ (call.op = "get_headers" /\ ret # None) => Val(ret).tok # None

---------------------------------------------------------------------------
(* SpecTwoServers: the add-fixed-IP conversation when both servers have a port *)

InitTwoServers ==
    /\ now = 0
    /\ token = Some("tok1")
    /\ token_expires = Some(now + LongLife)
    /\ service_catalog = StoreCatalog(EmptyDict, CatalogFull)
    /\ routers = <<ExternalRouter>>
    /\ subnets = <<SubnetA, SubnetB>>
    /\ networks = <<NetworkA, NetworkB>>
    /\ answers = Plain
    /\ identity = {BodyFull}
    /\ ports = [p \in {"p1", "p2"} |->
                   IF p = "p1" THEN Port("S1", "netA", <<FixedIp("10.0.0.9")>>)
                   ELSE Port("S2", "netB", <<FixedIp("10.0.1.7")>>)]
    /\ floatingips = [f \in FipIds |-> [port_id |-> None]]
    /\ sent = <<>>
    /\ ClientIdle /\ CallersIdle /\ BotIdle

SpecTwoServers == InitTwoServers /\ [][NextAddFixedIp]_vars

\* C34: the port a confirm event of the add-fixed-IP conversation updates is a port
\* of the server stored as current_server_id
C34_PortOfCurrentServer ==
    call.op = "confirm_add_fixed_ip" =>
        \A i \in PortWrites :
            /\ sent[i].id \in DOMAIN ports
            /\ ports[sent[i].id].device = user_data["current_server_id"]

---------------------------------------------------------------------------
(* SpecServers: the server list, the details of a server, and the server     *)
(* keyboard of the associate-floating-IP conversation                        *)

\* callback 'list_servers'
OnListServers ==
    \E x \in list_servers(World, now, user_data, prompted) :
        Handled("list_servers", x)

\* callback 'server|id'
OnServer(server_id) ==
    \E x \in show_server_details(World, now, user_data, prompted, server_id) :
        Handled("server", x)

NextServers ==
    \/ OnStart
    \/ OnListServers
    \/ \E server_id \in ServerIds : OnServer(server_id)
    \/ OnAssociateFloatingIp
    \/ \E server_index \in ServerButtons : OnSelectServer(server_index)

SpecServers == Init /\ [][NextServers]_vars

\* C35: after show_server_details registered a server, every index of the user's
\* server_map is an index of the stored server list and maps to the id of the
\* server stored there
C35_ServerMapMatchesServers ==
    (call.op = "server" /\ screen = "server_details") =>
        \A k \in DOMAIN user_data["server_map"] :
            /\ IntOf(k) + 1 \in DOMAIN LookupList(user_data, "servers")
            /\ user_data["servers"][IntOf(k) + 1].id = user_data["server_map"][k]

---------------------------------------------------------------------------
(* SpecMenu: the main menu and the messages behind its rows for the servers, *)
(* the networks, the floating IP menu, the new network and the help          *)

\* as InitChat, with the floating IP F2 not allocated yet and services that answer
\* 200 or 500
InitMenu ==
    /\ now = 0
    /\ token = Some("tok1")
    /\ token_expires = Some(now + LongLife)
    /\ service_catalog = StoreCatalog(EmptyDict, CatalogFull)
    /\ routers = <<ExternalRouter>>
    /\ subnets = <<SubnetA, SubnetB>>
    /\ networks = <<NetworkA, NetworkX>>
    /\ answers = Plain
    /\ identity = {BodyFull}
    /\ ports = [p \in {"p1"} |-> Port("S1", "netA", <<FixedIp("10.0.0.9")>>)]
    /\ floatingips = [f \in {"F1"} |-> [port_id |-> Some("p1")]]
    /\ sent = <<>>
    /\ ClientIdle /\ CallersIdle
    /\ user_data = EmptyDict
    /\ stranger_data = EmptyDict
    /\ prompted = None
    /\ screen = "none"
    /\ keyboards = [m \in Messages |-> {}]
    /\ application = Polling

\* the buttons the user of SpecMenu presses
MenuButtons ==
    { "list_servers", "server", "back_to_servers", "list_networks", "add_floating_ip",
      "allocate_floating_ip", "create_network", "confirm_create_network", "help",
      "back_to_main" }

MenuPress ==
    /\ Dispatches("button_handler")
    /\ \E user_id \in AUTHORIZED_USERS, m \in Messages :
         \E callback_data \in { b \in keyboards[m] : Name(b) \in MenuButtons } :
           \E x \in button_handler(World, now, user_id, DataOf(user_id), prompted,
                                   callback_data) :
             /\ Rendered(user_id, callback_data, x)
             /\ keyboards' = [keyboards EXCEPT ![m] = x.keyboard]

NextMenu == ChatStart \/ MenuPress

SpecMenu == InitMenu /\ [][NextMenu]_vars

\* C33: every button under a message of the chat has a branch of its own in
\* button_handler, none is left to the else; and pressing 'confirm_create_network'
\* sends the request that makes the network
C33_EveryButtonHandled ==
    /\ \A m \in Messages : \A b \in keyboards[m] : Branch(b) # "unknown"
    /\ call.op = "confirm_create_network" => NetworkPosts # {}

\* the messages that report a failure of the remote or a selection that is not valid
FailureReports ==
    { "servers_failed", "server_details_failed", "networks_failed",
      "floating_ips_failed", "no_public_network", "allocate_failed",
      "associate_failed", "disassociate_failed", "delete_failed",
      "add_fixed_ip_failed", "remove_fixed_ip_failed",
      "server_not_found", "floating_ip_not_found", "invalid_selection",
      "invalid_operation", "invalid_ip_selection", "invalid_interface",
      "invalid_network" }

\* C32: a step that ends in a failure report leaves a button under the message it
\* edited. The message pressed had a button; so no failure report leaves a message
\* that had buttons without any
C32_FailureKeepsWayOut ==
    [][screen' \in FailureReports =>
         \A m \in Messages : keyboards'[m] = {} => keyboards[m] = {}]_vars

============================================================================
